---- MODULE Spec2Model ----
(***************************************************************************)
(* chaintools: the projection engine of src/cmap/project.rs.               *)
(*                                                                         *)
(* Chain::map_through_ and Chain::alignment_cov_ are modelled statement by *)
(* statement as state machines: one action per loop head, per iteration of *)
(* an inner interval loop and per loop tail.  The chain's blocks, against  *)
(* which the results are judged, are computed separately, with the cursor  *)
(* arithmetic of Chain::to_blocks (src/cmap/chain.rs).                     *)
(*                                                                         *)
(* Coordinates are u64 in the source.  Every subtraction the source writes *)
(* without checked_sub is between values whose order the preceding test or *)
(* the chain's self-consistency fixes, so plain integers are used and the  *)
(* saturating ones (checked_sub(..).unwrap_or(0)) are SatSub.              *)
(*                                                                         *)
(* The parsers (Chain::head, Chain::from, AlignmentRecord::parse_byte) and *)
(* the file operations of src/io (Reader::parse, Reader::extract,          *)
(* BinaryIndex::index, Reader::extract_ix) work on byte sequences; a call  *)
(* ends in Ok, in Err or in a panic.  u32 and u64 are scaled to U32Max and *)
(* U64Max.                                                                 *)
(*                                                                         *)
(* Block materialisation (Chain::to_blocks, Chain::yield_blocks), the span *)
(* intersection (Chain::intersect_to_vector), the ChainMap filters and the *)
(* parallel fold and reduce of Reader::parse have specifications of their  *)
(* own; the work of parallel workers is a choice of the entries each gets  *)
(* and of the order in which their results are merged.                     *)
(***************************************************************************)
EXTENDS Integers, Sequences, FiniteSets, TLC

(* ------------------------------ bounds -------------------------------- *)
\* records per chain
MaxRecords == 2
\* aligned run length of a record: 1..MaxSize
MaxSize == 2
\* dt and dq of a record: 0..MaxGap
MaxGap == 2
\* intervals per batch
MaxIntervals == 2
\* interval coordinates: 0..MaxCoord
MaxCoord == 6
\* refs.start of every chain of a projection call
RefsStart == 2
\* refs.start of every chain of a coverage call
CovRefsStart == 3
\* query.start: 0..MaxQStart
MaxQStart == 1
\* query.size - query.end: 0..MaxQTail
MaxQTail == 0
\* abs_threshold: 0..MaxAbs
MaxAbs == 2
\* rel_threshold is RelNum / RelDen with RelNum in 0..MaxRelNum
MaxRelNum == 1
RelDen == 2
\* the largest u32 and the largest u64 of the model's scaled integer widths
U32Max == 99
U64Max == 999
\* chains per file, and the largest chain id
MaxChains == 2
MaxId == 3
\* the query gap of the chains with a wide gap
WideGap == 4

(* ------------------------------ values -------------------------------- *)
\* Option::None of a u64 or of a name
None == -1
\* the chain's query chromosome label, and the chrom of Interval::new()
QueryChr == "chrQ"
NoChr == ""

Max(a, b) == IF a >= b THEN a ELSE b
Min(a, b) == IF a <= b THEN a ELSE b
\* a.checked_sub(b).unwrap_or(0)
SatSub(a, b) == IF a >= b THEN a - b ELSE 0

RECURSIVE SumTo(_, _, _)
\* sum of F[i] for i in 1..k
SumTo(F, k, acc) == IF k = 0 THEN acc ELSE SumTo(F, k - 1, acc + F[k])

(* ------------------------------ the chain ----------------------------- *)
\* AlignmentRecord: size, dt, dq, is_last.  The terminal record has no gap; a record
\* that is followed by another one has a gap on at least one side, as in every chain
\* file (two runs with nothing between them are one run)
Records(last) ==
    IF last
    THEN [size : 1..MaxSize, dt : {0}, dq : {0}, is_last : {TRUE}]
    ELSE { rec \in [size : 1..MaxSize, dt : 0..MaxGap, dq : 0..MaxGap, is_last : {FALSE}] :
             rec.dt + rec.dq > 0 }

\* the alignments of at most MaxRecords records that end with the terminal one
Alignments ==
    UNION { { pre \o <<t>> : pre \in [1..(n - 1) -> Records(FALSE)], t \in Records(TRUE) }
            : n \in 1..MaxRecords }

RefSpan(al) == SumTo([i \in 1..Len(al) |-> al[i].size + al[i].dt], Len(al), 0)
QuerySpan(al) == SumTo([i \in 1..Len(al) |-> al[i].size + al[i].dq], Len(al), 0)

\* a self-consistent Chain: the heads' spans are the sums of the records
MkChain(al, strand, rstart, qstart, qtail) ==
    [ refs |-> [start |-> rstart, end |-> rstart + RefSpan(al)],
      query |-> [chr |-> QueryChr, strand |-> strand, start |-> qstart,
                 end |-> qstart + QuerySpan(al),
                 size |-> qstart + QuerySpan(al) + qtail],
      alignment |-> al ]

Chains ==
    { MkChain(al, s, RefsStart, qs, qt) :
        al \in Alignments, s \in {"+", "-"}, qs \in 0..MaxQStart, qt \in 0..MaxQTail }
\* the chains of the coverage calls, which read the reference side alone
CovChains == { MkChain(al, "+", CovRefsStart, 0, 0) : al \in Alignments }

(* block materialisation, as Chain::to_blocks computes its cursors *)
\* r_start when record k (1-based) is reached
BlockRStart(c, k) ==
    c.refs.start
      + SumTo([i \in 1..Len(c.alignment) |-> c.alignment[i].size + c.alignment[i].dt], k - 1, 0)
\* the query cursor when record k is reached, on the forward strand
BlockQCursor(c, k) ==
    LET moved == SumTo([i \in 1..Len(c.alignment) |->
                          c.alignment[i].size + c.alignment[i].dq], k - 1, 0)
    IN  IF c.query.strand = "+" THEN c.query.start + moved
        ELSE (c.query.size - c.query.start) - moved
\* the aligned block of record k
AlignedBlock(c, k) ==
    LET rec == c.alignment[k]
        r == BlockRStart(c, k)
        q == BlockQCursor(c, k)
    IN  [ r_start |-> r, r_end |-> r + rec.size,
          q_start |-> IF c.query.strand = "+" THEN q ELSE q - rec.size,
          q_end |-> IF c.query.strand = "+" THEN q + rec.size ELSE q ]
\* the gap block that follows the aligned block of record k
GapBlock(c, k) ==
    LET rec == c.alignment[k]
        r == BlockRStart(c, k) + rec.size
        q == IF c.query.strand = "+" THEN BlockQCursor(c, k) + rec.size
             ELSE BlockQCursor(c, k) - rec.size
    IN  [ r_start |-> r, r_end |-> r + rec.dt,
          q_start |-> IF c.query.strand = "+" THEN q ELSE q - rec.dq,
          q_end |-> IF c.query.strand = "+" THEN q + rec.dq ELSE q ]
\* the chain's query end on the forward strand (query_end of map_through_)
ForwardQueryEnd(c) ==
    IF c.query.strand = "+" THEN c.query.end ELSE c.query.size - c.query.start

(* ------------------------------ intervals ----------------------------- *)
\* an input interval: the Coordinates + Named capabilities
MkInterval(n, s, e) == [name |-> n, start |-> s, end |-> e, length |-> e - s]

\* the non-empty half-open ranges [start, end)
CoordPairs == { p \in (0..MaxCoord) \X (0..MaxCoord) : p[1] < p[2] }

\* batches of 1..MaxIntervals intervals, named 1..n in the caller's order
Batches ==
    UNION { { [i \in 1..n |-> MkInterval(i, ps[i][1], ps[i][2])] : ps \in [1..n -> CoordPairs] }
            : n \in 1..MaxIntervals }

\* a batch in which one field of one interval may be missing, or the empty batch
Lacking(batch, i, f) == [batch EXCEPT ![i] = [batch[i] EXCEPT ![f] = None]]
AnyBatches ==
    {<< >>} \cup Batches
      \cup { Lacking(batch, i, f) :
               batch \in Batches, i \in 1..MaxIntervals,
               f \in {"start", "end", "name", "length"} }

\* the comparator of intervals.sort_by: start ascending, then end ascending
SortsBefore(a, b) ==
    IF a.start = b.start THEN a.end < b.end ELSE a.start < b.start

RECURSIVE InsertSorted(_, _)
\* x goes after every element that does not sort after it (a stable sort)
InsertSorted(sorted, x) ==
    IF sorted = <<>> THEN <<x>>
    ELSE IF SortsBefore(x, sorted[Len(sorted)])
         THEN InsertSorted(SubSeq(sorted, 1, Len(sorted) - 1), x) \o <<sorted[Len(sorted)]>>
         ELSE sorted \o <<x>>

RECURSIVE SortBy(_)
\* intervals.sort_by(..): a stable sort
SortBy(s) ==
    IF s = <<>> THEN <<>>
    ELSE InsertSorted(SortBy(SubSeq(s, 1, Len(s) - 1)), s[Len(s)])

\* sort_by calls the comparator only on a list of two or more; it unwraps every
\* start, and the ends of two intervals that share a start
SortPanics(s) ==
    /\ Len(s) >= 2
    /\ \/ \E i \in 1..Len(s) : s[i].start = None
       \/ \E i, j \in 1..Len(s) : i # j /\ s[i].start = s[j].start /\ s[i].end = None

\* (inter.length().unwrap() as f64 * rel_threshold) as u64
RelSize(length, rel) == (length * rel) \div RelDen

(* ------------------------------ bytes --------------------------------- *)
\* a byte slice is a sequence of one-character strings; offsets are 0-based as in
\* the source, and Slice(s, a, z) is &s[a..z]
SP == " "
TAB == "\t"
NL == "\n"
DigitChars == <<"0", "1", "2", "3", "4", "5", "6", "7", "8", "9">>
Digits == { DigitChars[i] : i \in 1..10 }
DigitValue(c) == (CHOOSE i \in 1..10 : DigitChars[i] = c) - 1

Slice(s, a, z) == SubSeq(s, a + 1, z)
SliceFrom(s, a) == SubSeq(s, a + 1, Len(s))
\* &s[a..z] panics unless a <= z <= s.len()
SlicePanics(s, a, z) == a > z \/ z > Len(s)

\* memchr(c, s) and memrchr(c, s): Some(offset) or None
Memchr(c, s) ==
    IF \E i \in 1..Len(s) : s[i] = c
    THEN (CHOOSE i \in 1..Len(s) : s[i] = c /\ \A j \in 1..(i - 1) : s[j] # c) - 1
    ELSE None
Memrchr(c, s) ==
    IF \E i \in 1..Len(s) : s[i] = c
    THEN (CHOOSE i \in 1..Len(s) : s[i] = c /\ \A j \in (i + 1)..Len(s) : s[j] # c) - 1
    ELSE None

RECURSIVE DecimalValue(_, _, _)
\* the value of a digit string, saturating just above max
DecimalValue(ds, max, acc) ==
    IF ds = << >> THEN acc
    ELSE DecimalValue(Tail(ds), max, Min(acc * 10 + DigitValue(ds[1]), max + 1))

\* str::parse::<uN>(): an optional '+', then one or more digits, no overflow;
\* None stands for the Err
ParseUnsigned(s, max) ==
    LET ds == IF s # << >> /\ s[1] = "+" THEN Tail(s) ELSE s IN
    IF ds = << >> \/ (\E i \in 1..Len(ds) : ds[i] \notin Digits) THEN None
    ELSE IF DecimalValue(ds, max, 0) > max THEN None
    ELSE DecimalValue(ds, max, 0)
ParseU32(s) == ParseUnsigned(s, U32Max)
ParseU64(s) == ParseUnsigned(s, U64Max)

RECURSIVE ToDigits(_)
\* Display of an unsigned integer
ToDigits(n) ==
    IF n < 10 THEN <<DigitChars[n + 1]>>
    ELSE ToDigits(n \div 10) \o <<DigitChars[(n % 10) + 1]>>

RECURSIVE Concat(_)
\* the concatenation of a sequence of byte strings
Concat(ss) == IF ss = << >> THEN << >> ELSE Head(ss) \o Concat(Tail(ss))
RECURSIVE JoinWith(_, _)
JoinWith(ss, sep) ==
    IF ss = << >> THEN << >>
    ELSE IF Len(ss) = 1 THEN ss[1]
    ELSE ss[1] \o <<sep>> \o JoinWith(Tail(ss), sep)

\* the outcome of a fallible call: Ok(val), Err, or a panic
Ok(v) == [kind |-> "ok", val |-> v]
Err == [kind |-> "err"]
Panic == [kind |-> "panic"]

\* a + c in u32: the sum, or when it exceeds the largest u32 the wrapped sum (a
\* build without overflow checks) or a panic (a build with them)
U32Sums(a, c) ==
    IF a + c <= U32Max THEN {Ok(a + c)}
    ELSE {Ok((a + c) % (U32Max + 1)), Panic}

(* ------------------------------ the parsers --------------------------- *)
\* AlignmentRecord
Record(size, dt, dq, is_last) == [size |-> size, dt |-> dt, dq |-> dq, is_last |-> is_last]

RECURSIVE parse_byte(_, _)
\* AlignmentRecord::parse_byte: one call is the rest of the loop from align on
parse_byte(align, acc) ==
    LET sep == Memchr(TAB, align) IN
    IF sep = None
    THEN IF Len(align) < 2 THEN Ok(acc)
         ELSE LET end == Memchr(NL, align) IN
              IF end = None THEN Err
              ELSE LET size == ParseU32(Slice(align, 0, end)) IN
                   IF size = None THEN Err
                   ELSE Ok(Append(acc, Record(size, 0, 0, TRUE)))
    ELSE LET end == Memchr(NL, SliceFrom(align, sep))
             mid == Memchr(TAB, SliceFrom(align, sep + 1))
         IN
         IF end = None \/ mid = None THEN Panic
         ELSE LET size == ParseU32(Slice(align, 0, sep))
                  dt == ParseU32(Slice(align, sep + 1, sep + mid + 1))
              IN
              IF size = None \/ dt = None THEN Err
              ELSE IF SlicePanics(align, sep + mid + 2, sep + end) THEN Panic
              ELSE LET dq == ParseU32(Slice(align, sep + mid + 2, sep + end)) IN
                   IF dq = None THEN Err
                   ELSE parse_byte(SliceFrom(align, sep + end + 1),
                                   Append(acc, Record(size, dt, dq, FALSE)))

\* AlignmentRecord::parse: parse_byte(align).expect(..)
AlignmentParse(align) ==
    IF parse_byte(align, << >>).kind = "ok" THEN parse_byte(align, << >>) ELSE Panic

RECURSIVE SplitSpaces(_)
\* the loop of Chain::head: the slices between the spaces
SplitSpaces(header) ==
    LET sep == Memchr(SP, header) IN
    IF sep = None THEN <<header>>
    ELSE <<Slice(header, 0, sep)>> \o SplitSpaces(SliceFrom(header, sep + 1))

\* ChainHead::from on five fields
ChainHeadFrom(f) ==
    IF ParseU64(f[2]) = None \/ f[3] = << >> \/ ParseU64(f[4]) = None \/ ParseU64(f[5]) = None
    THEN Err
    ELSE Ok([chr |-> f[1], size |-> ParseU64(f[2]), strand |-> f[3][1],
             start |-> ParseU64(f[4]), end |-> ParseU64(f[5])])

\* Chain::head
ChainHeadOf(header) ==
    LET acc == SplitSpaces(header) IN
    IF Len(acc) < 7 THEN Panic                     \* &acc[2..7]
    ELSE LET refs == ChainHeadFrom(SubSeq(acc, 3, 7)) IN
         IF refs.kind = "err" THEN Err
         ELSE IF Len(acc) < 12 THEN Panic          \* &acc[7..12]
         ELSE LET query == ChainHeadFrom(SubSeq(acc, 8, 12))
                  score == ParseU64(acc[2])
                  id == ParseU32(acc[Len(acc)])
              IN
              IF query.kind = "err" \/ score = None \/ id = None THEN Err
              ELSE Ok([score |-> score, refs |-> refs.val, query |-> query.val, id |-> id])

\* Chain::from
ChainFrom(head, block) ==
    LET hd == ChainHeadOf(head) IN
    IF hd.kind # "ok" THEN hd
    ELSE LET alignment == AlignmentParse(block) IN
         IF alignment.kind # "ok" THEN Panic
         ELSE Ok([score |-> hd.val.score, refs |-> hd.val.refs, query |-> hd.val.query,
                  alignment |-> alignment.val, id |-> hd.val.id])

\* ChainHead::to_string
HeadToString(hd) ==
    JoinWith(<<hd.chr, ToDigits(hd.size), <<hd.strand>>, ToDigits(hd.start), ToDigits(hd.end)>>, SP)
\* Chain::header
ChainHeader(c) ==
    JoinWith(<<(<<"c", "h", "a", "i", "n">>), ToDigits(c.score), HeadToString(c.refs),
               HeadToString(c.query), ToDigits(c.id)>>, SP)
\* Chain::alignment with the last record rendered like the others, followed by the
\* blank line
ChainAlignmentAllTriples(c) ==
    Concat([i \in 1..Len(c.alignment) |->
              JoinWith(<<ToDigits(c.alignment[i].size), ToDigits(c.alignment[i].dt),
                         ToDigits(c.alignment[i].dq)>>, TAB) \o <<NL>>]) \o <<NL>>
\* Chain::alignment: the last record by position renders as its size and a blank line
ChainAlignment(c) ==
    Concat([i \in 1..Len(c.alignment) |->
              IF i = Len(c.alignment)
              THEN ToDigits(c.alignment[i].size) \o <<NL, NL>>
              ELSE JoinWith(<<ToDigits(c.alignment[i].size), ToDigits(c.alignment[i].dt),
                              ToDigits(c.alignment[i].dq)>>, TAB) \o <<NL>>])
\* Chain::to_string
ChainToString(c) == ChainHeader(c) \o <<NL>> \o ChainAlignment(c)

(* ------------------------------ chain files --------------------------- *)
\* the alignments of the chains in the model's files
FileAlignments ==
    { <<Record(2, 0, 0, TRUE)>>,
      <<Record(1, 1, 0, FALSE), Record(1, 0, 0, TRUE)>>,
      <<Record(10, 0, 1, FALSE), Record(3, 0, 0, TRUE)>> }
\* a self-consistent chain with the given id and alignment; the chromosome names
\* hold the byte 'c', as in chr1
SampleChain(id, al) ==
    [ score |-> 10 * id,
      refs |-> [chr |-> <<"c", "h", "r">>, size |-> 50, strand |-> "+",
                start |-> id, end |-> id + RefSpan(al)],
      query |-> [chr |-> <<"s", "c">>, size |-> 60, strand |-> IF id = 2 THEN "-" ELSE "+",
                 start |-> 0, end |-> QuerySpan(al)],
      alignment |-> al,
      id |-> id ]
SampleChains == { SampleChain(id, al) : id \in 1..MaxId, al \in FileAlignments }

\* the chain file text format: the header line of 13 space-separated fields
HeaderFields(c) ==
    << <<"c", "h", "a", "i", "n">>, ToDigits(c.score),
       c.refs.chr, ToDigits(c.refs.size), <<c.refs.strand>>, ToDigits(c.refs.start),
       ToDigits(c.refs.end),
       c.query.chr, ToDigits(c.query.size), <<c.query.strand>>, ToDigits(c.query.start),
       ToDigits(c.query.end), ToDigits(c.id) >>
HeaderLine(c) == JoinWith(HeaderFields(c), SP)
\* the alignment lines: size TAB dt TAB dq, and the size alone on the terminal line
BodyLines(al) ==
    Concat([i \in 1..Len(al) |->
              IF al[i].is_last THEN ToDigits(al[i].size) \o <<NL>>
              ELSE ToDigits(al[i].size) \o <<TAB>> \o ToDigits(al[i].dt) \o <<TAB>>
                     \o ToDigits(al[i].dq) \o <<NL>>])
\* a chain's text block: header line, alignment lines, blank line
ChainText(c) == HeaderLine(c) \o <<NL>> \o BodyLines(c.alignment) \o <<NL>>

\* a chain's text block with one malformation: a score that is no number, or a
\* size that is no number
BadHeaderText(c) ==
    JoinWith([HeaderFields(c) EXCEPT ![2] = <<"x">>], SP) \o <<NL>>
      \o BodyLines(c.alignment) \o <<NL>>
BadBodyText(c) == HeaderLine(c) \o <<NL, "x">> \o BodyLines(c.alignment) \o <<NL>>

\* the chains of a file: 1..MaxChains chains with unique ids
FileChains ==
    UNION { { cs \in [1..n -> SampleChains] :
                \A i, j \in 1..n : i # j => cs[i].id # cs[j].id } : n \in 1..MaxChains }
FileOf(cs) == Concat([i \in 1..Len(cs) |-> ChainText(cs[i])])
WellFormedFiles == { FileOf(cs) : cs \in FileChains }
\* files in which one chain is malformed
MalformedFiles ==
    UNION { { Concat([i \in 1..Len(cs) |->
                        IF i # j THEN ChainText(cs[i])
                        ELSE IF inHeader THEN BadHeaderText(cs[i]) ELSE BadBodyText(cs[i])])
                : j \in 1..Len(cs), inHeader \in BOOLEAN } : cs \in FileChains }
\* files that contain no chain
NoChainFiles == { << >>, <<NL>> }
Files == WellFormedFiles \cup MalformedFiles \cup NoChainFiles
\* the lists of ids a caller asks for: absent and repeated ids included
IdLists == UNION { [1..n -> 1..MaxId] : n \in 0..MaxChains }

(* ------------------------------ parser inputs ------------------------- *)
\* the header lines of the sample chains
ValidHeaders == { HeaderLine(c) : c \in SampleChains }
\* a header line with its fields replaced or cut
WithField(c, i, bytes) == JoinWith([HeaderFields(c) EXCEPT ![i] = bytes], SP)
FirstFields(c, n) == JoinWith(SubSeq(HeaderFields(c), 1, n), SP)
\* malformed header lines: a field count other than 13, a first token other than
\* chain, a strand other than + or -, a numeric field that is no number
WrongCountHeaders ==
    { FirstFields(c, n) : c \in SampleChains, n \in {6, 11, 12} }
      \cup { HeaderLine(c) \o <<SP, "0">> : c \in SampleChains }
WrongKeywordHeaders == { WithField(c, 1, <<"c", "h", "e", "i", "n">>) : c \in SampleChains }
WrongStrandHeaders ==
    { WithField(c, i, s) : c \in SampleChains, i \in {5, 10}, s \in {<<"x">>, << >>} }
WrongNumberHeaders ==
    { WithField(c, i, <<"x">>) : c \in SampleChains, i \in {2, 4, 6, 7, 9, 11, 12, 13} }
MalformedHeaders ==
    WrongCountHeaders \cup WrongKeywordHeaders \cup WrongStrandHeaders \cup WrongNumberHeaders
HeaderInputs ==
    ValidHeaders \cup { hd \o <<NL>> : hd \in ValidHeaders } \cup MalformedHeaders

\* the bodies of the sample chains, as Reader::parse hands them over (without the
\* blank line) and as the last chain of a file has them (with it)
ValidBodies ==
    { BodyLines(al) : al \in FileAlignments } \cup { BodyLines(al) \o <<NL>> : al \in FileAlignments }
\* malformed bodies: a non-digit in a numeric field, a missing tab or newline in a
\* line of three fields, a field above the largest u32
MalformedBodies ==
    { <<"x", NL, NL>>,
      <<"1", TAB, "x", TAB, "0", NL, "1", NL, NL>>,
      <<"1", TAB, "1", NL, "1", NL, NL>>,
      <<"1", TAB, "1", TAB, "0">>,
      ToDigits(U32Max + 1) \o <<NL, NL>>,
      <<"1", TAB>> \o ToDigits(U32Max + 1) \o <<TAB, "0", NL, "1", NL, NL>> }
\* bodies without a terminal line
OpenBodies == { << >>, <<"1", TAB, "1", TAB, "0", NL>>, <<"2">> }
BodyInputs == ValidBodies \cup MalformedBodies \cup OpenBodies

(* ------------------------------ state --------------------------------- *)
VARIABLES
    chain,             \* self: the Chain
    intervals,         \* the caller's Vec<T>, sorted in place by the call
    abs_threshold,
    rel_threshold,     \* numerator over RelDen
    ignore_undefined,
    output,            \* FxHashMap: name -> Interval (map_through_) or u64 (alignment_cov_)
    rel_sizes,         \* FxHashMap: name -> relative threshold
    min_start, max_end, curr, curr_end,
    r_start, q_start, r_block_end, q_block_start, q_block_end,
    h,                 \* index of the record of the outer loop, 0-based
    base,              \* curr when the inner loop took its slice intervals[curr..]
    idx,               \* enumerate() index of the inner loop
    pc,                \* position in the function
    result             \* "running", "ok", "err" (an Err returned) or "panic"

inputs == <<chain, abs_threshold, rel_threshold, ignore_undefined>>
sweep == <<min_start, max_end, curr, curr_end>>
cursors == <<r_start, q_start, r_block_end, q_block_start, q_block_end>>
\* the state of the file operations (src/io) and of the calls of the parsers
VARIABLES
    file,              \* the bytes of the chain file on disk
    data,              \* the slice still to be scanned
    chainmap,          \* FxHashMap<u32, Chain>
    out_handle,        \* the lines written to <file>.ix: <<chain, start_byte, end_byte>>
    ixloc,             \* BinaryIndex::index: start_byte, header_end, offset, chain,
                       \* chain_encountered
    chains,            \* the requested chain ids
    all,               \* extract_ix: load the whole index
    nth,               \* position of the loop `for chain_id in chains`
    call,              \* the operation that was called
    arg,               \* the arguments of a call of Chain::head or Chain::from
    ret                \* what that call returned

VARIABLES
    report_gaps,       \* to_blocks / yield_blocks: the argument report_gaps
    blocks,            \* the blocks pushed (to_blocks) or yielded (yield_blocks) so far
    block_num,
    partials           \* the partial results of the parallel workers

io == <<file, data, chainmap, out_handle, ixloc, chains, all, nth, call, arg, ret>>
materialisation == <<report_gaps, blocks, block_num>>
beyond == <<materialisation, partials>>
projection == <<chain, intervals, abs_threshold, rel_threshold, ignore_undefined, output,
                rel_sizes, min_start, max_end, curr, curr_end, r_start, q_start,
                r_block_end, q_block_start, q_block_end, h, base, idx>>
vars == <<chain, intervals, abs_threshold, rel_threshold, ignore_undefined, output,
          rel_sizes, min_start, max_end, curr, curr_end, r_start, q_start,
          r_block_end, q_block_start, q_block_end, h, base, idx, pc, result, io, beyond>>

N == Len(intervals)
codirected == chain.query.strand = "+"
q_strand == chain.query.strand = "+"
r_end == chain.refs.end
query_end == IF q_strand THEN chain.query.end ELSE chain.query.size - chain.query.start
\* the record of the outer loop
b == chain.alignment[h + 1]
\* is_last_block
is_last_block == b.dt = 0 /\ b.dq = 0

\* the locals of BinaryIndex::index before its loop
IndexLocals ==
    [start_byte |-> 0, header_end |-> 0, offset |-> 0, chain |-> 0, chain_encountered |-> FALSE]
\* the file f on disk and the arguments a of a parser call, nothing called yet
FileState(f, m, a, op) ==
    /\ file = f /\ data = << >> /\ chainmap = m /\ out_handle = << >>
    /\ ixloc = IndexLocals /\ chains = << >> /\ all = FALSE /\ nth = 0
    /\ call = op /\ arg = a /\ ret = << >>
\* no block is materialised and no parallel worker runs
NoBlocks == report_gaps = FALSE /\ blocks = << >> /\ block_num = 0
NoWorkers == partials = << >>
Untouched(f, a) == FileState(f, << >>, a, "none") /\ NoBlocks /\ NoWorkers
\* no file is read and no parser is called
NoFile == Untouched(<< >>, << >>)

\* the arguments of a projection call, and its locals not yet assigned
Arguments(c, batch, abs, rel, ign, at) ==
    /\ chain = c
    /\ intervals = batch
    /\ abs_threshold = abs
    /\ rel_threshold = rel
    /\ ignore_undefined = ign
    /\ output = << >>
    /\ rel_sizes = << >>
    /\ min_start = 0 /\ max_end = 0 /\ curr = 0 /\ curr_end = 0
    /\ r_start = 0 /\ q_start = 0 /\ r_block_end = 0
    /\ q_block_start = 0 /\ q_block_end = 0
    /\ h = 0 /\ base = 0 /\ idx = 0
    /\ pc = at
    /\ result = "running"

\* the state before a projection call
Entry(c, batch, abs, rel, ign, at) ==
    /\ Arguments(c, batch, abs, rel, ign, at)
    /\ NoFile
\* the state before a file operation or a parser call: no projection is running
NoProjection(at) ==
    Arguments(SampleChain(1, <<Record(2, 0, 0, TRUE)>>), << >>, 0, 0, FALSE, at)

\* the calls of the model: a batch of one interval with every pair of thresholds
\* and either mode, a batch of several intervals with both thresholds 0 and
\* ignore_undefined off
Calls(batch, abs, rel, ign) == Len(batch) > 1 => (abs = 0 /\ rel = 0 /\ ~ign)

Init ==
    \E c \in Chains, batch \in Batches, abs \in 0..MaxAbs, rel \in 0..MaxRelNum,
       ign \in BOOLEAN :
        /\ Calls(batch, abs, rel, ign)
        /\ Entry(c, batch, abs, rel, ign, "map_start")

\* return from the function
Return(res) == pc' = "done" /\ result' = res

(* ------------------------------ map_through_ -------------------------- *)
\* the sort and the initialisation of the sweep
MapStart ==
    /\ pc = "map_start"
    /\ UNCHANGED <<io, beyond>>
    /\ IF SortPanics(intervals) \/ N = 0
       THEN \* a comparator unwrap of None, or intervals[0] of an empty Vec
            /\ Return("panic")
            /\ UNCHANGED <<intervals, sweep, r_start, q_start, h>>
       ELSE LET sorted == SortBy(intervals) IN
            /\ intervals' = sorted
            /\ IF sorted[1].start = None \/ sorted[Len(sorted)].end = None
                  \/ sorted[1].end = None
               THEN /\ Return("err")
                    /\ UNCHANGED <<sweep, r_start, q_start, h>>
               ELSE /\ min_start' = sorted[1].start
                    /\ max_end' = sorted[Len(sorted)].end
                    /\ curr' = 0
                    /\ curr_end' = sorted[1].end
                    /\ r_start' = chain.refs.start
                    /\ q_start' = IF q_strand THEN chain.query.start
                                  ELSE chain.query.size - chain.query.start
                    /\ h' = 0
                    /\ pc' = "map_outer"
                    /\ UNCHANGED result
    /\ UNCHANGED <<inputs, output, rel_sizes, r_block_end, q_block_start, q_block_end,
                   base, idx>>

\* the head of the loop over alignment records, up to the aligned block's bounds
MapOuter ==
    /\ pc = "map_outer"
    /\ UNCHANGED <<io, beyond>>
    /\ IF h >= Len(chain.alignment) \/ r_start > max_end
       THEN \* the records are exhausted, or the iterator has passed max_end
            /\ Return("ok")
            /\ UNCHANGED <<cursors, h, base, idx>>
       ELSE IF r_start + b.size + b.dt < min_start
       THEN \* skip the block preceding the first interval's start
            \E rsum \in U32Sums(b.size, b.dt), qsum \in U32Sums(b.size, b.dq) :
                IF rsum.kind = "panic" \/ qsum.kind = "panic"
                THEN Return("panic") /\ UNCHANGED <<cursors, h, base, idx>>
                ELSE /\ r_start' = r_start + rsum.val
                     /\ q_start' = IF q_strand THEN q_start + qsum.val
                                   ELSE q_start - qsum.val
                     /\ r_block_end' = r_start + b.size
                     /\ h' = h + 1
                     /\ UNCHANGED <<q_block_start, q_block_end, base, idx, pc, result>>
       ELSE /\ r_block_end' = r_start + b.size
            /\ q_block_start' = IF q_strand THEN q_start ELSE q_start - b.size
            /\ q_block_end' = IF q_strand THEN q_start + b.size ELSE q_start
            /\ base' = curr
            /\ idx' = 0
            /\ pc' = "map_block"
            /\ UNCHANGED <<r_start, q_start, h, result>>
    /\ UNCHANGED <<inputs, intervals, output, rel_sizes, sweep>>

\* Interval::new()
NewInterval == [name |-> None, chrom |-> NoChr, start |-> None, end |-> None]

\* "add a results block to the output hash map": insert, update_name, update_chrom
Ensure(out, name) ==
    IF name \in DOMAIN out THEN out
    ELSE [n \in DOMAIN out \cup {name} |->
            IF n = name
            THEN [NewInterval EXCEPT !.name = name, !.chrom = chain.query.chr]
            ELSE out[n]]

\* output.entry(name).and_modify(|x| x.update_start(v)), and likewise for the end
UpdateStart(out, name, v) == [out EXCEPT ![name].start = v]
UpdateEnd(out, name, v) == [out EXCEPT ![name].end = v]
\* reset_start and reset_end
ResetBoth(out, name) == [out EXCEPT ![name].start = None, ![name].end = None]

\* rel_sizes.entry(name).or_insert(..): the memoised relative threshold
RelThresh(inter) ==
    IF inter.name \in DOMAIN rel_sizes THEN rel_sizes[inter.name]
    ELSE RelSize(inter.length, rel_threshold)
Memoise(rs, inter) ==
    IF inter.name \in DOMAIN rs THEN rs
    ELSE [n \in DOMAIN rs \cup {inter.name} |->
            IF n = inter.name THEN RelSize(inter.length, rel_threshold) ELSE rs[n]]

\* TooFar with the thresholds themselves counted as too far
TooFarInclusive(offset, inter) == offset >= abs_threshold /\ offset >= RelThresh(inter)
\* "coordinate is too far to be extrapolated"
TooFar(offset, inter) == offset > abs_threshold /\ offset > RelThresh(inter)

\* the first block's case: the interval starts before the chain
StartsBeforeChain(inter) == h = 0 /\ inter.start < r_start /\ inter.end >= r_start
EdgeFirst(out, inter) ==
    LET offset == r_start - inter.start IN
    IF TooFar(offset, inter)
    THEN IF codirected THEN UpdateStart(out, inter.name, q_block_start)
         ELSE UpdateEnd(out, inter.name, Min(q_block_end, query_end))
    ELSE IF codirected THEN UpdateStart(out, inter.name, SatSub(q_block_start, offset))
         ELSE UpdateEnd(out, inter.name, Min(q_block_end + offset, query_end))

\* the last block's case: the interval ends beyond the chain
EndsAfterChain(inter) == is_last_block /\ inter.end >= r_end /\ inter.start < r_end
\* EdgeLast without the cap at query_end
EdgeLastUncapped(out, inter) ==
    LET offset == inter.end - r_block_end IN
    IF TooFar(offset, inter)
    THEN IF codirected THEN UpdateEnd(out, inter.name, q_block_end)
         ELSE UpdateStart(out, inter.name, q_block_start)
    ELSE IF codirected THEN UpdateEnd(out, inter.name, q_block_end + offset)
         ELSE UpdateStart(out, inter.name, SatSub(q_block_start, offset))
EdgeLast(out, inter) ==
    LET offset == inter.end - r_block_end IN
    IF TooFar(offset, inter)
    THEN IF codirected THEN UpdateEnd(out, inter.name, Min(q_block_end, query_end))
         ELSE UpdateStart(out, inter.name, q_block_start)
    ELSE IF codirected THEN UpdateEnd(out, inter.name, Min(q_block_end + offset, query_end))
         ELSE UpdateStart(out, inter.name, SatSub(q_block_start, offset))

\* a coordinate within [r_start, r_block_end)
Within(x) == r_start <= x /\ x < r_block_end

\* the start coordinate through an aligned block
BlockStart(out, inter) ==
    LET offset == inter.start - r_start IN
    IF codirected THEN UpdateStart(out, inter.name, q_block_start + offset)
    ELSE UpdateEnd(out, inter.name, Min(q_block_end - offset, query_end))
\* BlockEnd with the offset taken from the block's left edge
BlockEndFromLeft(out, inter) ==
    LET offset == inter.end - r_start IN
    IF codirected THEN UpdateEnd(out, inter.name, Min(SatSub(q_block_end, offset), query_end))
    ELSE UpdateStart(out, inter.name, q_block_start + offset)
\* the end coordinate through an aligned block
BlockEnd(out, inter) ==
    LET offset == r_block_end - inter.end IN
    IF codirected THEN UpdateEnd(out, inter.name, Min(SatSub(q_block_end, offset), query_end))
    ELSE UpdateStart(out, inter.name, q_block_start + offset)

\* GapStart with the offset taken from the gap's left edge
GapStartFromLeft(out, inter) ==
    LET offset == inter.start - r_start IN
    IF TooFar(offset, inter)
    THEN IF codirected THEN UpdateStart(out, inter.name, q_block_start)
         ELSE UpdateEnd(out, inter.name, Min(q_block_end, query_end))
    ELSE IF codirected THEN UpdateStart(out, inter.name, SatSub(q_block_end, offset))
         ELSE UpdateEnd(out, inter.name, Min(query_end, q_block_start + offset))
\* the start coordinate within an alignment gap
GapStart(out, inter) ==
    LET offset == r_block_end - inter.start IN
    IF TooFar(offset, inter)
    THEN IF codirected THEN UpdateStart(out, inter.name, q_block_start)
         ELSE UpdateEnd(out, inter.name, Min(q_block_end, query_end))
    ELSE IF codirected THEN UpdateStart(out, inter.name, SatSub(q_block_end, offset))
         ELSE UpdateEnd(out, inter.name, Min(query_end, q_block_start + offset))
\* the end coordinate within an alignment gap
GapEnd(out, inter) ==
    LET offset == inter.end - r_start IN
    IF TooFar(offset, inter)
    THEN IF codirected THEN UpdateEnd(out, inter.name, Min(q_block_end, query_end))
         ELSE UpdateStart(out, inter.name, q_block_start)
    ELSE IF codirected THEN UpdateEnd(out, inter.name, Min(q_block_start + offset, query_end))
         ELSE UpdateStart(out, inter.name, SatSub(q_block_end, offset))

\* the next iteration of an inner loop, or its end when the slice is exhausted
NextInter(after) ==
    IF base + idx + 1 >= N
    THEN pc' = after /\ UNCHANGED idx
    ELSE idx' = idx + 1 /\ UNCHANGED pc

\* "chain block is upstream to the current interval": the pointer update and the break
Upstream(inter, out, after) ==
    LET i == idx + curr
        moved == IF r_block_end > curr_end THEN i ELSE curr
    IN  /\ output' = out
        /\ curr' = moved
        /\ IF moved >= N
           THEN Return("ok") /\ UNCHANGED curr_end
           ELSE /\ curr_end' = IF inter.end >= curr_end THEN inter.end ELSE curr_end
                /\ pc' = after
                /\ UNCHANGED result
        /\ UNCHANGED <<rel_sizes, min_start, max_end, idx>>

\* "chain block is downstream to the current interval": the pointer update and the continue
Downstream(inter, out, after) ==
    LET moved == IF inter.end = curr_end THEN curr + 1 ELSE curr
    IN  /\ output' = out
        /\ curr' = moved
        /\ IF moved >= N
           THEN Return("ok") /\ UNCHANGED idx
           ELSE NextInter(after) /\ UNCHANGED result
        /\ UNCHANGED <<rel_sizes, min_start, max_end, curr_end>>

\* one iteration of the loop over intervals[curr..] for the aligned block
MapBlock ==
    /\ pc = "map_block"
    /\ UNCHANGED <<io, beyond>>
    /\ LET inter == intervals[base + idx + 1] IN
       IF inter.start = None \/ inter.end = None \/ inter.name = None
       THEN Return("err") /\ UNCHANGED <<output, rel_sizes, sweep, idx>>
       ELSE LET out0 == Ensure(output, inter.name) IN
            IF r_block_end < inter.start THEN Upstream(inter, out0, "map_block_end")
            ELSE IF r_start > inter.end THEN Downstream(inter, out0, "map_block_end")
            ELSE IF (StartsBeforeChain(inter) \/ EndsAfterChain(inter)) /\ inter.length = None
            THEN Return("panic") /\ UNCHANGED <<output, rel_sizes, sweep, idx>>
            ELSE LET out1 == IF StartsBeforeChain(inter) THEN EdgeFirst(out0, inter) ELSE out0
                     out2 == IF EndsAfterChain(inter) THEN EdgeLast(out1, inter) ELSE out1
                     out3 == IF Within(inter.start) THEN BlockStart(out2, inter) ELSE out2
                     out4 == IF Within(inter.end) THEN BlockEnd(out3, inter) ELSE out3
                 IN  /\ output' = out4
                     /\ rel_sizes' = IF StartsBeforeChain(inter) \/ EndsAfterChain(inter)
                                     THEN Memoise(rel_sizes, inter) ELSE rel_sizes
                     /\ curr_end' = Max(curr_end, inter.end)
                     /\ max_end' = Max(Max(curr_end, inter.end), max_end)
                     /\ NextInter("map_block_end")
                     /\ UNCHANGED <<min_start, curr, result>>
    /\ UNCHANGED <<inputs, intervals, cursors, h, base>>

\* after the aligned block: the last block's break, the cursors of the gap
MapBlockEnd ==
    /\ pc = "map_block_end"
    /\ UNCHANGED <<io, beyond>>
    /\ IF is_last_block
       THEN Return("ok") /\ UNCHANGED <<cursors, h, base, idx>>
       ELSE LET r == r_start + b.size
                q == IF q_strand THEN q_start + b.size ELSE q_start - b.size
            IN  /\ r_start' = r
                /\ r_block_end' = r + b.dt
                /\ q_block_start' = IF q_strand THEN q ELSE q - b.dq
                /\ q_block_end' = IF q_strand THEN q + b.dq ELSE q
                /\ IF b.dt = 0
                   THEN \* "ignore blocks standing for full deletions in the reference"
                        /\ q_start' = IF q_strand THEN q + b.dq ELSE q - b.dq
                        /\ h' = h + 1
                        /\ pc' = "map_outer"
                        /\ UNCHANGED <<base, idx, result>>
                   ELSE /\ q_start' = q
                        /\ IF curr >= N
                           THEN Return("ok") /\ UNCHANGED <<base, idx>>
                           ELSE /\ base' = curr
                                /\ idx' = 0
                                /\ pc' = "map_gap"
                                /\ UNCHANGED result
                        /\ UNCHANGED h
    /\ UNCHANGED <<inputs, intervals, output, rel_sizes, sweep>>

\* one iteration of the loop over intervals[curr..] for the chain gap
MapGap ==
    /\ pc = "map_gap"
    /\ UNCHANGED <<io, beyond>>
    /\ LET inter == intervals[base + idx + 1] IN
       IF inter.start = None \/ inter.end = None \/ inter.name = None
       THEN Return("err") /\ UNCHANGED <<output, rel_sizes, sweep, idx>>
       ELSE LET out0 == Ensure(output, inter.name) IN
            IF r_block_end < inter.start THEN Upstream(inter, out0, "map_gap_end")
            ELSE IF r_start > inter.end THEN Downstream(inter, out0, "map_gap_end")
            ELSE IF Within(inter.start) /\ inter.length = None
            THEN Return("panic") /\ UNCHANGED <<output, rel_sizes, sweep, idx>>
            ELSE LET out1 == IF Within(inter.start) THEN GapStart(out0, inter) ELSE out0
                     \* coords_in_gap == 2 && ignore_undefined
                     reset == Within(inter.start) /\ Within(inter.end) /\ ignore_undefined
                 IN  IF reset
                     THEN /\ output' = ResetBoth(out1, inter.name)
                          /\ rel_sizes' = Memoise(rel_sizes, inter)
                          /\ NextInter("map_gap_end")
                          /\ UNCHANGED <<sweep, result>>
                     ELSE IF Within(inter.end) /\ inter.length = None
                     THEN Return("panic") /\ UNCHANGED <<output, rel_sizes, sweep, idx>>
                     ELSE /\ output' = IF Within(inter.end) THEN GapEnd(out1, inter) ELSE out1
                          /\ rel_sizes' = IF Within(inter.start) \/ Within(inter.end)
                                          THEN Memoise(rel_sizes, inter) ELSE rel_sizes
                          /\ curr_end' = Max(curr_end, inter.end)
                          /\ max_end' = Max(Max(curr_end, inter.end), max_end)
                          /\ NextInter("map_gap_end")
                          /\ UNCHANGED <<min_start, curr, result>>
    /\ UNCHANGED <<inputs, intervals, cursors, h, base>>

\* after the gap: the new min_start, the cursors of the next record
MapGapEnd ==
    /\ pc = "map_gap_end"
    /\ UNCHANGED <<io, beyond>>
    /\ IF curr >= N
       THEN Return("ok") /\ UNCHANGED <<min_start, r_start, q_start, h>>
       ELSE IF intervals[curr + 1].start = None
       THEN Return("err") /\ UNCHANGED <<min_start, r_start, q_start, h>>
       ELSE /\ min_start' = intervals[curr + 1].start
            /\ r_start' = r_start + b.dt
            /\ q_start' = IF q_strand THEN q_start + b.dq ELSE q_start - b.dq
            /\ h' = h + 1
            /\ pc' = "map_outer"
            /\ UNCHANGED result
    /\ UNCHANGED <<inputs, intervals, output, rel_sizes, max_end, curr, curr_end,
                   r_block_end, q_block_start, q_block_end, base, idx>>

Next ==
    \/ MapStart
    \/ MapOuter
    \/ MapBlock
    \/ MapBlockEnd
    \/ MapGap
    \/ MapGapEnd

Spec == Init /\ [][Next]_vars

\* any batch, valid or not, with both thresholds 0 on a codirected chain
InitAny ==
    \E al \in Alignments, batch \in AnyBatches :
        Entry(MkChain(al, "+", RefsStart, 0, 0), batch, 0, 0, FALSE, "map_start")

SpecAny == InitAny /\ [][Next]_vars

\* chains of two records whose query gap is wider than the reference gap and any
\* interval of the batch
WideChains ==
    { MkChain(<<Record(sz, dt, WideGap, FALSE), t>>, s, RefsStart, qs, 0) :
        sz \in 1..MaxSize, dt \in 1..MaxGap, t \in Records(TRUE), s \in {"+", "-"},
        qs \in 0..MaxQStart }
InitWide ==
    \E c \in WideChains, batch \in Batches, abs \in 0..MaxAbs, rel \in 0..MaxRelNum,
       ign \in BOOLEAN :
        /\ Calls(batch, abs, rel, ign)
        /\ Entry(c, batch, abs, rel, ign, "map_start")

SpecWide == InitWide /\ [][Next]_vars

\* chains whose first record is about as long as a u32 allows, and one interval
\* at or behind the second record
LongChains ==
    { MkChain(<<rec, t>>, s, RefsStart, 0, 0) :
        rec \in { x \in [size : (U32Max - 1)..U32Max, dt : 0..MaxGap, dq : 0..MaxGap,
                         is_last : {FALSE}] : x.dt + x.dq > 0 },
        t \in Records(TRUE), s \in {"+", "-"} }
InitLong ==
    \E c \in LongChains, from \in 0..MaxGap, len \in 1..MaxSize,
       abs \in 0..MaxAbs, rel \in 0..MaxRelNum, ign \in BOOLEAN :
        Entry(c, <<MkInterval(1, BlockRStart(c, 2) + from, BlockRStart(c, 2) + from + len)>>,
              abs, rel, ign, "map_start")

SpecLong == InitLong /\ [][Next]_vars

(* ------------------------------ alignment_cov_ ------------------------ *)
\* cubiculum's intersection(): the length of the overlap of two half-open ranges
Intersection(s1, e1, s2, e2) == Max(Min(e1, e2) - Max(s1, s2), 0)

\* the sort and the initialisation of the sweep
CovStart ==
    /\ pc = "cov_start"
    /\ UNCHANGED <<io, beyond>>
    /\ IF SortPanics(intervals) \/ N = 0
       THEN /\ Return("panic")
            /\ UNCHANGED <<intervals, sweep, r_start, r_block_end, h>>
       ELSE LET sorted == SortBy(intervals) IN
            /\ intervals' = sorted
            /\ IF sorted[1].start = None \/ sorted[Len(sorted)].end = None
                  \/ sorted[1].end = None
               THEN /\ Return("err")
                    /\ UNCHANGED <<sweep, r_start, r_block_end, h>>
               ELSE /\ min_start' = sorted[1].start
                    /\ max_end' = sorted[Len(sorted)].end
                    /\ curr' = 0
                    /\ curr_end' = sorted[1].end
                    /\ r_start' = chain.refs.start
                    /\ r_block_end' = 0
                    /\ h' = 0
                    /\ pc' = "cov_outer"
                    /\ UNCHANGED result
    /\ UNCHANGED <<inputs, output, rel_sizes, q_start, q_block_start, q_block_end, base, idx>>

\* the head of the loop over alignment records
CovOuter ==
    /\ pc = "cov_outer"
    /\ UNCHANGED <<io, beyond>>
    /\ IF h >= Len(chain.alignment)
       THEN Return("ok") /\ UNCHANGED <<r_start, r_block_end, h, base, idx>>
       ELSE /\ r_block_end' = r_start + b.size
            /\ IF r_start + b.size < min_start
               THEN \* "continue if the first interval has not yet been reached"
                    \E rsum \in U32Sums(b.size, b.dt) :
                        IF rsum.kind = "panic"
                        THEN Return("panic") /\ UNCHANGED <<r_start, h, base, idx>>
                        ELSE /\ r_start' = r_start + rsum.val
                             /\ h' = h + 1
                             /\ UNCHANGED <<base, idx, pc, result>>
               ELSE IF r_start > max_end
               THEN \* "break the block loop if the last interval has been passed"
                    Return("ok") /\ UNCHANGED <<r_start, h, base, idx>>
               ELSE /\ base' = curr
                    /\ idx' = 0
                    /\ pc' = "cov_block"
                    /\ UNCHANGED <<r_start, h, result>>
    /\ UNCHANGED <<inputs, intervals, output, rel_sizes, sweep, q_start, q_block_start,
                   q_block_end>>

\* output.insert(name, 0) unless the key is there
EnsureCount(out, name) ==
    IF name \in DOMAIN out THEN out
    ELSE [n \in DOMAIN out \cup {name} |-> IF n = name THEN 0 ELSE out[n]]

\* one iteration of the loop over intervals[curr..]
CovBlock ==
    /\ pc = "cov_block"
    /\ UNCHANGED <<io, beyond>>
    /\ LET inter == intervals[base + idx + 1]
           i == idx + curr
       IN
       IF inter.start = None \/ inter.end = None \/ inter.name = None
       THEN Return("err") /\ UNCHANGED <<output, sweep, idx>>
       ELSE LET out0 == EnsureCount(output, inter.name) IN
            IF r_block_end < inter.start
            THEN /\ output' = out0
                 /\ curr' = IF r_block_end >= curr_end THEN i ELSE curr
                 /\ curr_end' = IF inter.end >= curr_end THEN inter.end ELSE curr_end
                 /\ pc' = "cov_block_end"
                 /\ UNCHANGED <<min_start, max_end, idx, result>>
            ELSE IF r_start > inter.end
            THEN /\ output' = out0
                 /\ NextInter("cov_block_end")
                 /\ UNCHANGED <<sweep, result>>
            ELSE /\ output' = [out0 EXCEPT ![inter.name] =
                                  @ + Intersection(inter.start, inter.end, r_start, r_block_end)]
                 /\ curr_end' = Max(curr_end, inter.end)
                 /\ max_end' = Max(Max(curr_end, inter.end), max_end)
                 /\ NextInter("cov_block_end")
                 /\ UNCHANGED <<min_start, curr, result>>
    /\ UNCHANGED <<inputs, intervals, rel_sizes, cursors, h, base>>

\* after the block: the next record's start and the new min_start
CovBlockEnd ==
    /\ pc = "cov_block_end"
    /\ UNCHANGED <<io, beyond>>
    /\ IF curr >= N
       THEN Return("ok") /\ UNCHANGED <<min_start, r_start, h>>
       ELSE IF intervals[curr + 1].start = None
       THEN Return("panic") /\ UNCHANGED <<min_start, r_start, h>>
       ELSE \E rsum \in U32Sums(b.size, b.dt) :
                IF rsum.kind = "panic"
                THEN Return("panic") /\ UNCHANGED <<min_start, r_start, h>>
                ELSE /\ r_start' = r_start + rsum.val
                     /\ min_start' = intervals[curr + 1].start
                     /\ h' = h + 1
                     /\ pc' = "cov_outer"
                     /\ UNCHANGED result
    /\ UNCHANGED <<inputs, intervals, output, rel_sizes, max_end, curr, curr_end, q_start,
                   r_block_end, q_block_start, q_block_end, base, idx>>

NextCov ==
    \/ CovStart
    \/ CovOuter
    \/ CovBlock
    \/ CovBlockEnd

InitCov ==
    \E c \in CovChains, batch \in Batches :
        Entry(c, batch, 0, 0, FALSE, "cov_start")

SpecCov == InitCov /\ [][NextCov]_vars

(* ------------------------------ Reader::parse ------------------------- *)
\* chainmap.insert(id, chain)
Insert(m, id, c) == [x \in DOMAIN m \cup {id} |-> IF x = id THEN c ELSE m[x]]

RECURSIVE SplitChains(_, _)
\* the splitter loop of Reader::parse: the (header, block) pairs of the file
SplitChains(d, vacc) ==
    LET sep == Memchr(NL, d) IN
    IF sep = None THEN Err
    ELSE LET end == Memchr("c", SliceFrom(d, sep)) IN
         IF end = None
         THEN Ok(Append(vacc, <<Slice(d, 0, sep), SliceFrom(d, sep + 1)>>))
         ELSE IF SlicePanics(d, sep + 1, sep + end - 1) THEN Panic
         ELSE SplitChains(SliceFrom(d, sep + end),
                          Append(vacc, <<Slice(d, 0, sep), Slice(d, sep + 1, sep + end - 1)>>))

RECURSIVE CollectChains(_, _)
\* filter_map(|(header, block)| Chain::from(header, block).ok()) folded into a map
CollectChains(vacc, m) ==
    IF vacc = << >> THEN m
    ELSE LET r == ChainFrom(vacc[1][1], vacc[1][2]) IN
         CollectChains(Tail(vacc), IF r.kind = "ok" THEN Insert(m, r.val.id, r.val) ELSE m)

\* Reader::parse
ReaderParse(d) ==
    LET split == SplitChains(d, << >>) IN
    IF split.kind # "ok" THEN split
    ELSE IF \E i \in 1..Len(split.val) :
               ChainFrom(split.val[i][1], split.val[i][2]).kind = "panic"
    THEN Panic
    ELSE Ok(CollectChains(split.val, << >>))

\* a call of Reader::parse on the file
Parse ==
    /\ pc = "io_idle"
    /\ call' = "parse"
    /\ chainmap' = IF ReaderParse(file).kind = "ok" THEN ReaderParse(file).val ELSE << >>
    /\ Return(ReaderParse(file).kind)
    /\ UNCHANGED <<file, data, out_handle, ixloc, chains, all, nth, arg, ret>>
    /\ UNCHANGED <<projection, beyond>>

(* ------------------------------ Reader::extract ----------------------- *)
\* the header's id compared with the first requested id alone
RequestedFirst(id_str) == ToDigits(chains[1]) = id_str
\* chains.contains(&id_str), the caller's ids being decimal strings
Requested(id_str) == \E i \in 1..Len(chains) : ToDigits(chains[i]) = id_str

\* the call of Reader::extract, up to the loop
ExtractStart ==
    /\ pc = "io_idle"
    /\ call' = "extract"
    /\ \E ids \in IdLists :
          /\ chains' = ids
          /\ IF Len(ids) = 0
             THEN Return("ok") /\ UNCHANGED data
             ELSE data' = file /\ pc' = "extract_scan" /\ UNCHANGED result
    /\ UNCHANGED <<file, chainmap, out_handle, ixloc, all, nth, arg, ret>>
    /\ UNCHANGED <<projection, beyond>>

\* one iteration of the loop of Reader::extract
ExtractScan ==
    /\ pc = "extract_scan"
    /\ LET sep == Memchr(NL, data)
           end == Memchr("c", SliceFrom(data, sep))
           header == Slice(data, 0, sep)
           id_field == Memrchr(SP, header)
           id_str == SliceFrom(header, id_field + 1)
           last == ChainFrom(header, SliceFrom(data, sep + 1))
           next == ChainFrom(header, Slice(data, sep + 1, sep + end - 1))
       IN
       IF sep = None THEN Return("err") /\ UNCHANGED <<data, chainmap>>
       ELSE IF id_field = None THEN Return("err") /\ UNCHANGED <<data, chainmap>>
       ELSE IF end = None
       THEN IF ~Requested(id_str) THEN Return("ok") /\ UNCHANGED <<data, chainmap>>
            ELSE IF last.kind # "ok" THEN Return("panic") /\ UNCHANGED <<data, chainmap>>
            ELSE /\ chainmap' = Insert(chainmap, last.val.id, last.val)
                 /\ Return("ok")
                 /\ UNCHANGED data
       ELSE IF ~Requested(id_str)
       THEN data' = SliceFrom(data, sep + end) /\ UNCHANGED <<chainmap, pc, result>>
       ELSE IF SlicePanics(data, sep + 1, sep + end - 1) \/ next.kind # "ok"
       THEN Return("panic") /\ UNCHANGED <<data, chainmap>>
       ELSE /\ chainmap' = Insert(chainmap, next.val.id, next.val)
            /\ IF Cardinality(DOMAIN chainmap') = Len(chains)
               THEN Return("ok") /\ UNCHANGED data
               ELSE data' = SliceFrom(data, sep + end) /\ UNCHANGED <<pc, result>>
    /\ UNCHANGED <<file, out_handle, ixloc, chains, all, nth, call, arg, ret>>
    /\ UNCHANGED <<projection, beyond>>

(* ------------------------------ BinaryIndex::index -------------------- *)
\* the call of BinaryIndex::index, up to the loop
IndexStart ==
    /\ pc = "io_idle"
    /\ call' = "index"
    /\ data' = file
    /\ out_handle' = << >>
    /\ ixloc' = IndexLocals
    /\ pc' = "index_loop"
    /\ UNCHANGED <<file, chainmap, chains, all, nth, arg, ret, result>>
    /\ UNCHANGED <<projection, beyond>>

\* one iteration of the loop of BinaryIndex::index
IndexLoop ==
    /\ pc = "index_loop"
    /\ LET chain_start == Memchr("c", data)
           written == IF ixloc.chain_encountered
                      THEN Append(out_handle,
                                  <<ixloc.chain, ixloc.start_byte, chain_start + ixloc.offset>>)
                      ELSE out_handle
           rest == SliceFrom(data, chain_start)
           header_end == Memchr(NL, rest)
           header == Slice(rest, 0, header_end)
           id_field == Memrchr(SP, header)
           id == ParseU64(SliceFrom(header, id_field + 1))
       IN
       IF chain_start = None
       THEN /\ out_handle' = Append(out_handle,
                                    <<ixloc.chain, ixloc.start_byte,
                                      ixloc.start_byte + ixloc.header_end + 1 + Len(data)>>)
            /\ pc' = "indexed"
            /\ result' = "ok"
            /\ UNCHANGED <<data, ixloc>>
       ELSE /\ out_handle' = written
            /\ IF header_end = None \/ id_field = None \/ id = None
               THEN Return("err") /\ UNCHANGED <<data, ixloc>>
               ELSE /\ ixloc' = [start_byte |-> chain_start + ixloc.offset,
                                  header_end |-> header_end,
                                  offset |-> ixloc.offset + chain_start + header_end + 1,
                                  chain |-> id,
                                  chain_encountered |-> TRUE]
                    /\ data' = SliceFrom(rest, header_end + 1)
                    /\ UNCHANGED <<pc, result>>
    /\ UNCHANGED <<file, chainmap, chains, all, nth, call, arg, ret>>
    /\ UNCHANGED <<projection, beyond>>

(* ------------------------------ Reader::extract_ix -------------------- *)
RECURSIVE ReadIndex(_, _, _, _)
\* Reader::read_index: the lines of the index file kept for the requested ids
ReadIndex(lines, ids, every, index) ==
    IF lines = << >> THEN index
    ELSE LET line == lines[1]
             kept == IF (\E i \in 1..Len(ids) : ids[i] = line[1]) \/ every
                     THEN Insert(index, line[1], <<line[2], line[3]>>)
                     ELSE index
         IN
         IF Cardinality(DOMAIN kept) = Len(ids) /\ ~every THEN kept
         ELSE ReadIndex(Tail(lines), ids, every, kept)

\* the read without the seek: the first end - start bytes of the file
ReadRangeNoSeek(start, end) ==
    [i \in 1..(end - start) |-> IF i <= Len(file) THEN file[i] ELSE "\\0"]
\* f.seek(start); f.read(&mut vec![0; end - start]): bytes past the end of the
\* file stay 0
ReadRange(start, end) ==
    [i \in 1..(end - start) |-> IF start + i <= Len(file) THEN file[start + i] ELSE "\\0"]

\* the call of Reader::extract_ix on an indexed file, up to the loop
ExtractIxStart ==
    /\ pc = "indexed"
    /\ call' = "extract_ix"
    /\ chainmap' = << >>
    /\ nth' = 0
    /\ \E ids \in IdLists, every \in BOOLEAN :
          /\ chains' = ids
          /\ all' = every
          /\ IF Len(ids) = 0 THEN Return("ok")
             ELSE pc' = "extract_ix_loop" /\ UNCHANGED result
    /\ UNCHANGED <<file, data, out_handle, ixloc, arg, ret>>
    /\ UNCHANGED <<projection, beyond>>

\* one iteration of `for chain_id in chains`
ExtractIxChain ==
    /\ pc = "extract_ix_loop"
    /\ LET chain_id == chains[nth + 1]
           index == ReadIndex(out_handle, chains, all, << >>)
           chain_string == ReadRange(index[chain_id][1], index[chain_id][2])
           header_pos == Memchr(NL, chain_string)
           parsed == ChainFrom(Slice(chain_string, 0, header_pos),
                               SliceFrom(chain_string, header_pos + 1))
       IN
       IF chain_id \notin DOMAIN index
       THEN \* panic!("Chain {} was not found in the index file")
            Return("panic") /\ UNCHANGED <<chainmap, nth>>
       ELSE IF header_pos = None THEN Return("err") /\ UNCHANGED <<chainmap, nth>>
       ELSE IF parsed.kind # "ok" THEN Return(parsed.kind) /\ UNCHANGED <<chainmap, nth>>
       ELSE /\ chainmap' = Insert(chainmap, parsed.val.id, parsed.val)
            /\ nth' = nth + 1
            /\ IF nth + 1 = Len(chains) THEN Return("ok") ELSE UNCHANGED <<pc, result>>
    /\ UNCHANGED <<file, data, out_handle, ixloc, chains, all, call, arg, ret>>
    /\ UNCHANGED <<projection, beyond>>

\* the file operations on one chain file
InitIO ==
    \E f \in Files : NoProjection("io_idle") /\ Untouched(f, << >>)

NextIO ==
    \/ Parse
    \/ ExtractStart
    \/ ExtractScan
    \/ IndexStart
    \/ IndexLoop
    \/ ExtractIxStart
    \/ ExtractIxChain

SpecIO == InitIO /\ [][NextIO]_vars

(* ------------------------------ parser calls -------------------------- *)
\* a call of Chain::head
HeadCall ==
    /\ pc = "head_call"
    /\ call' = "head"
    /\ ret' = ChainHeadOf(arg[1])
    /\ Return(ChainHeadOf(arg[1]).kind)
    /\ UNCHANGED <<file, data, chainmap, out_handle, ixloc, chains, all, nth, arg>>
    /\ UNCHANGED <<projection, beyond>>

\* a call of Chain::from
FromCall ==
    /\ pc = "from_call"
    /\ call' = "from"
    /\ ret' = ChainFrom(arg[1], arg[2])
    /\ Return(ChainFrom(arg[1], arg[2]).kind)
    /\ UNCHANGED <<file, data, chainmap, out_handle, ixloc, chains, all, nth, arg>>
    /\ UNCHANGED <<projection, beyond>>

\* Chain::from on the text that the chain returned by a first Chain::from renders
\* (Chain::header and Chain::alignment)
FromRendered(head, block) ==
    LET first == ChainFrom(head, block) IN
    IF first.kind = "ok"
    THEN ChainFrom(ChainHeader(first.val), ChainAlignment(first.val))
    ELSE first

RenderCall ==
    /\ pc = "render_call"
    /\ call' = "from_rendered"
    /\ ret' = FromRendered(arg[1], arg[2])
    /\ Return(FromRendered(arg[1], arg[2]).kind)
    /\ UNCHANGED <<file, data, chainmap, out_handle, ixloc, chains, all, nth, arg>>
    /\ UNCHANGED <<projection, beyond>>

InitParsers ==
    \/ \E header \in HeaderInputs :
          NoProjection("head_call") /\ Untouched(<< >>, <<header>>)
    \/ \E header \in ValidHeaders, block \in BodyInputs :
          NoProjection("from_call") /\ Untouched(<< >>, <<header, block>>)
    \/ \E header \in ValidHeaders, block \in BodyInputs :
          NoProjection("render_call") /\ Untouched(<< >>, <<header, block>>)

NextParsers ==
    \/ HeadCall
    \/ FromCall
    \/ RenderCall

SpecParsers == InitParsers /\ [][NextParsers]_vars

(* ------------------------------ to_blocks ----------------------------- *)
\* Chain::to_blocks(Both, report_gaps) and Chain::yield_blocks(Both, report_gaps)
\* have one body: the first pushes each block on a vector, the second yields it.

\* ChainBlock::DoubleSided
DoubleSided(id, rs, re, qs, qe) ==
    [id |-> id, r_start |-> rs, r_end |-> re, q_start |-> qs, q_end |-> qe]
\* block_num.to_string() and format!("{}_{}", block_num, block_num + 1)
BlockName(n) == ToDigits(n)
GapName(n) == ToDigits(n) \o <<"_">> \o ToDigits(n + 1)

\* the test that lets a gap block through: it reads dq twice and dt never
GapRequested(rec) == report_gaps /\ ~(rec.dq = 0 /\ rec.dq = 0)

\* the aligned block with the query side laid out as on the + strand
RecordBlockCodirected(rec) ==
    DoubleSided(BlockName(block_num), r_start, r_start + rec.size,
                q_start, q_start + rec.size)
\* the aligned block of the record, from the cursors
RecordBlock(rec) ==
    DoubleSided(BlockName(block_num), r_start, r_start + rec.size,
                IF q_strand THEN q_start ELSE q_start - rec.size,
                IF q_strand THEN q_start + rec.size ELSE q_start)
\* the gap block with the query gap's width on the reference side
RecordGapQueryWidth(rec, r, q) ==
    DoubleSided(GapName(block_num), r, r + rec.dq,
                IF q_strand THEN q ELSE q - rec.dq,
                IF q_strand THEN q + rec.dq ELSE q)
\* the gap block after it, from the cursors moved past the aligned block
RecordGap(rec, r, q) ==
    DoubleSided(GapName(block_num), r, r + rec.dt,
                IF q_strand THEN q ELSE q - rec.dq,
                IF q_strand THEN q + rec.dq ELSE q)

BlocksStart ==
    /\ pc = "blocks_start"
    /\ r_start' = chain.refs.start
    /\ q_start' = IF q_strand THEN chain.query.start
                  ELSE chain.query.size - chain.query.start
    /\ block_num' = 1
    /\ blocks' = << >>
    /\ h' = 0
    /\ pc' = "blocks_loop"
    /\ UNCHANGED <<inputs, intervals, output, rel_sizes, sweep, r_block_end, q_block_start,
                   q_block_end, base, idx, result, report_gaps, partials>>
    /\ UNCHANGED io

\* one turn of `for b in &self.alignment`
BlocksRecord ==
    /\ pc = "blocks_loop"
    /\ h < Len(chain.alignment)
    /\ LET r == r_start + b.size
           q == IF q_strand THEN q_start + b.size ELSE q_start - b.size
           gap == RecordGap(b, r, q)
       IN  /\ IF GapRequested(b)
              THEN /\ blocks' = blocks \o <<RecordBlock(b), gap>>
                   /\ r_block_end' = gap.r_end
                   /\ q_block_start' = gap.q_start
                   /\ q_block_end' = gap.q_end
              ELSE /\ blocks' = Append(blocks, RecordBlock(b))
                   /\ r_block_end' = RecordBlock(b).r_end
                   /\ q_block_start' = RecordBlock(b).q_start
                   /\ q_block_end' = RecordBlock(b).q_end
           /\ r_start' = r + b.dt
           /\ q_start' = IF q_strand THEN q + b.dq ELSE q - b.dq
    /\ block_num' = block_num + 1
    /\ h' = h + 1
    /\ UNCHANGED <<inputs, intervals, output, rel_sizes, sweep, base, idx, pc, result,
                   report_gaps, partials>>
    /\ UNCHANGED io

BlocksEnd ==
    /\ pc = "blocks_loop"
    /\ h = Len(chain.alignment)
    /\ Return("ok")
    /\ UNCHANGED <<inputs, intervals, output, rel_sizes, sweep, cursors, h, base, idx>>
    /\ UNCHANGED <<io, beyond>>

InitBlocks ==
    \E c \in Chains, gaps \in BOOLEAN, f \in {"to_blocks", "yield_blocks"} :
        /\ Arguments(c, << >>, 0, 0, FALSE, "blocks_start")
        /\ FileState(<< >>, << >>, << >>, f)
        /\ report_gaps = gaps /\ blocks = << >> /\ block_num = 0
        /\ NoWorkers

NextBlocks ==
    \/ BlocksStart
    \/ BlocksRecord
    \/ BlocksEnd

SpecBlocks == InitBlocks /\ [][NextBlocks]_vars

(* ------------------------------ ChainMap filters ---------------------- *)
\* the chains of the maps: scores 10 * id, heads of two sizes on either side
MapChain(id, rsize, qsize) ==
    [SampleChain(id, <<Record(2, 0, 0, TRUE)>>) EXCEPT !.refs.size = rsize,
                                                        !.query.size = qsize]
MapChains(id) == { MapChain(id, rs, qs) : rs \in {50, 70}, qs \in {60, 80} }
\* ChainMap.map: every chain under its id
ChainMaps ==
    UNION { { m \in [ids -> UNION { MapChains(id) : id \in ids }] :
                \A id \in ids : m[id].id = id } : ids \in SUBSET (1..MaxId) }
\* the caller's predicates of ChainMap::filter
Predicates == {"reverse", "wide"}
Holds(fc, c) ==
    IF fc = "reverse" THEN c.query.strand = "-" ELSE c.refs.size + c.query.size > 120
\* the calls: the filter and its argument
FilterCalls ==
    ({"filter_by_score"} \X {10, 20, 31})
      \cup ({"filter_ref_by_size"} \X {50, 51, 71})
      \cup ({"filter_query_by_size"} \X {60, 61, 81})
      \cup ({"filter_id"} \X IdLists)
      \cup ({"filter"} \X Predicates)

\* the closures handed to .filter(), with every comparison strict
KeepsAbove(kind, param, k, v) ==
    CASE kind = "filter_by_score" -> v.score > param
      [] kind = "filter_ref_by_size" -> v.refs.size > param
      [] kind = "filter_query_by_size" -> v.query.size > param
      [] kind = "filter_id" -> \E i \in 1..Len(param) : param[i] = k
      [] kind = "filter" -> Holds(param, v)
\* the closures handed to .filter()
Keeps(kind, param, k, v) ==
    CASE kind = "filter_by_score" -> v.score >= param
      [] kind = "filter_ref_by_size" -> v.refs.size >= param
      [] kind = "filter_query_by_size" -> v.query.size >= param
      [] kind = "filter_id" -> \E i \in 1..Len(param) : param[i] = k
      [] kind = "filter" -> Holds(param, v)
\* .filter(..).map(|(k, v)| (*k, v.clone())) over the entries with keys in share
Filtered(m, share, kind, param) ==
    [k \in { x \in share : Keeps(kind, param, x, m[x]) } |-> m[k]]
\* FxHashMap::extend that keeps the entries of acc alone
ExtendDropping(acc, m) == acc
\* FxHashMap::extend
Extend(acc, m) ==
    [k \in DOMAIN acc \cup DOMAIN m |-> IF k \in DOMAIN m THEN m[k] ELSE acc[k]]

\* ChainMap::filter: a sequential iterator
FilterCall ==
    /\ pc = "filter_call"
    /\ arg[1] = "filter"
    /\ call' = arg[1]
    /\ ret' = Filtered(chainmap, DOMAIN chainmap, arg[1], arg[2])
    /\ Return("ok")
    /\ UNCHANGED <<file, data, chainmap, out_handle, ixloc, chains, all, nth, arg>>
    /\ UNCHANGED <<projection, beyond>>

\* the par_iter filters: the entries are shared out between the workers
FilterWorkers ==
    /\ pc = "filter_call"
    /\ arg[1] # "filter"
    /\ call' = arg[1]
    /\ \E share \in SUBSET DOMAIN chainmap :
          partials' = << Filtered(chainmap, share, arg[1], arg[2]),
                         Filtered(chainmap, DOMAIN chainmap \ share, arg[1], arg[2]) >>
    /\ pc' = "filter_collect"
    /\ UNCHANGED <<file, data, chainmap, out_handle, ixloc, chains, all, nth, arg, ret>>
    /\ UNCHANGED <<projection, materialisation, result>>

\* .collect(): the workers' parts are put into one map, in either order
FilterCollect ==
    /\ pc = "filter_collect"
    /\ \E first \in 1..2 :
          ret' = Extend(Extend(<< >>, partials[first]), partials[3 - first])
    /\ Return("ok")
    /\ UNCHANGED <<file, data, chainmap, out_handle, ixloc, chains, all, nth, call, arg>>
    /\ UNCHANGED <<projection, beyond>>

InitMaps ==
    \E m \in ChainMaps, f \in FilterCalls :
        /\ NoProjection("filter_call")
        /\ FileState(<< >>, m, <<f[1], f[2]>>, "none") /\ NoBlocks /\ NoWorkers

NextMaps ==
    \/ FilterCall
    \/ FilterWorkers
    \/ FilterCollect

SpecMaps == InitMaps /\ [][NextMaps]_vars

(* ------------------------------ intersect_to_vector ------------------- *)
\* the chains of the calls: one record, either strand
SpanChains ==
    { MkChain(<<t>>, s, RefsStart, qs, 0) :
        t \in Records(TRUE), s \in {"+", "-"}, qs \in 0..MaxQStart }
to_ref == arg[1]
\* the locals start and end
span_start ==
    IF to_ref THEN chain.refs.start
    ELSE IF chain.query.strand = "+" THEN chain.query.start
    ELSE chain.query.size - chain.query.end
span_end ==
    IF to_ref THEN chain.refs.end
    ELSE IF chain.query.strand = "+" THEN chain.query.end
    ELSE chain.query.size - chain.query.start

IntersectStart ==
    /\ pc = "intersect_start"
    /\ call' = "intersect_to_vector"
    /\ output' = << >>
    /\ idx' = 0
    /\ pc' = "intersect_loop"
    /\ UNCHANGED <<inputs, intervals, rel_sizes, sweep, cursors, h, base, result>>
    /\ UNCHANGED <<file, data, chainmap, out_handle, ixloc, chains, all, nth, arg, ret>>
    /\ UNCHANGED beyond

\* one turn of `for i in intervals`; the break leaves the loop for the return
IntersectStep ==
    /\ pc = "intersect_loop"
    /\ idx < Len(intervals)
    /\ LET i == intervals[idx + 1] IN
       IF i.start = None
       THEN idx' = idx + 1 /\ UNCHANGED <<output, pc, result>>
       ELSE IF i.start >= span_end
       THEN Return("ok") /\ UNCHANGED <<output, idx>>
       ELSE IF i.end = None \/ i.end <= span_start
       THEN idx' = idx + 1 /\ UNCHANGED <<output, pc, result>>
       ELSE /\ output' = Append(output, i)
            /\ idx' = idx + 1
            /\ UNCHANGED <<pc, result>>
    /\ UNCHANGED <<inputs, intervals, rel_sizes, sweep, cursors, h, base>>
    /\ UNCHANGED <<io, beyond>>

IntersectEnd ==
    /\ pc = "intersect_loop"
    /\ idx = Len(intervals)
    /\ Return("ok")
    /\ UNCHANGED <<inputs, intervals, output, rel_sizes, sweep, cursors, h, base, idx>>
    /\ UNCHANGED <<io, beyond>>

InitIntersect ==
    \E c \in SpanChains, batch \in AnyBatches, ref \in BOOLEAN :
        /\ Arguments(c, batch, 0, 0, FALSE, "intersect_start")
        /\ Untouched(<< >>, <<ref>>)

NextIntersect ==
    \/ IntersectStart
    \/ IntersectStep
    \/ IntersectEnd

SpecIntersect == InitIntersect /\ [][NextIntersect]_vars

(* ------------------------------ Reader::parse, in parallel ------------ *)
\* files of two chains that carry the same id and differ in their records
RepeatedIdFiles ==
    { ChainText(SampleChain(id, al1)) \o ChainText(SampleChain(id, al2)) :
        id \in 1..MaxId, al1 \in FileAlignments, al2 \in FileAlignments }
WorkerFiles == WellFormedFiles \cup MalformedFiles \cup RepeatedIdFiles

RECURSIVE ShareOf(_, _, _)
\* the (header, block) pairs a worker is given, in their order in vacc
ShareOf(vacc, share, i) ==
    IF i > Len(vacc) THEN << >>
    ELSE (IF i \in share THEN <<vacc[i]>> ELSE << >>) \o ShareOf(vacc, share, i + 1)

\* vacc.par_iter().filter_map(..).fold(..): each worker folds the chains of its
\* pairs into a map of its own
ParseWorkers ==
    /\ pc = "workers_idle"
    /\ call' = "parse"
    /\ LET split == SplitChains(file, << >>) IN
       IF split.kind # "ok"
       THEN Return(split.kind) /\ UNCHANGED partials
       ELSE IF \E i \in 1..Len(split.val) :
                  ChainFrom(split.val[i][1], split.val[i][2]).kind = "panic"
       THEN Return("panic") /\ UNCHANGED partials
       ELSE /\ \E share \in SUBSET (1..Len(split.val)) :
                  partials' =
                      << CollectChains(ShareOf(split.val, share, 1), << >>),
                         CollectChains(ShareOf(split.val, (1..Len(split.val)) \ share, 1),
                                       << >>) >>
            /\ pc' = "parse_reduce"
            /\ UNCHANGED result
    /\ UNCHANGED <<file, data, chainmap, out_handle, ixloc, chains, all, nth, arg, ret>>
    /\ UNCHANGED <<projection, materialisation>>

\* .reduce(..): acc.extend(map) over the workers' maps, in either order
ParseReduce ==
    /\ pc = "parse_reduce"
    /\ \E first \in 1..2 :
          chainmap' = Extend(Extend(<< >>, partials[first]), partials[3 - first])
    /\ Return("ok")
    /\ UNCHANGED <<file, data, out_handle, ixloc, chains, all, nth, call, arg, ret>>
    /\ UNCHANGED <<projection, beyond>>

InitWorkers ==
    \E f \in WorkerFiles : NoProjection("workers_idle") /\ Untouched(f, << >>)

NextWorkers ==
    \/ ParseWorkers
    \/ ParseReduce

SpecWorkers == InitWorkers /\ [][NextWorkers]_vars

(* ====================================================================== *)
(*                               claims                                   *)
(* ====================================================================== *)
\* the call has returned Ok(output)
Finished == pc = "done" /\ result = "ok"
Names == { intervals[i].name : i \in 1..N }
\* the projected interval of a name; without an entry nothing is set
Projected(n) == IF n \in DOMAIN output THEN output[n] ELSE NewInterval
\* what the reference start and the reference end of an interval project to: the
\* projected start and end, swapped on an antiparallel chain
StartImage(inter) ==
    IF codirected THEN Projected(inter.name).start ELSE Projected(inter.name).end
EndImage(inter) ==
    IF codirected THEN Projected(inter.name).end ELSE Projected(inter.name).start
\* the chain's blocks
AlignedBlocks == { AlignedBlock(chain, k) : k \in 1..Len(chain.alignment) }
GapBlocks ==
    { GapBlock(chain, k) : k \in { j \in 1..Len(chain.alignment) : chain.alignment[j].dt > 0 } }
Inside(x, blk) == blk.r_start <= x /\ x < blk.r_end
\* floor(length * rel_threshold)
RelOf(inter) == (inter.length * rel_threshold) \div RelDen
\* the threshold rule's test
RuleCrops(off, inter) == off > abs_threshold /\ off > RelOf(inter)

\* C1: when the sweep has finished, every interval endpoint that lies inside an
\* aligned block of the chain has a defined projected coordinate.
C1_EndpointsInBlocksProjected ==
    Finished =>
        \A i \in 1..N : \A blk \in AlignedBlocks :
            /\ Inside(intervals[i].start, blk) => StartImage(intervals[i]) # None
            /\ Inside(intervals[i].end, blk) => EndImage(intervals[i]) # None

\* C2: a projected endpoint that lies inside an aligned block is exact, in every
\* state of the call: start maps to q_start + (start - r_start) and end to
\* q_end - (r_end - end) on a codirected chain, start maps to the projected end
\* q_end - (start - r_start) and end to the projected start q_start + (r_end - end)
\* on an antiparallel chain, and no later step overwrites the value.
C2_BlockProjectionExact ==
    \A i \in 1..N : \A blk \in AlignedBlocks :
        LET inter == intervals[i] IN
        /\ (Inside(inter.start, blk) /\ StartImage(inter) # None)
              => StartImage(inter) =
                   IF codirected THEN blk.q_start + (inter.start - blk.r_start)
                   ELSE blk.q_end - (inter.start - blk.r_start)
        /\ (Inside(inter.end, blk) /\ EndImage(inter) # None)
              => EndImage(inter) =
                   IF codirected THEN blk.q_end - (blk.r_end - inter.end)
                   ELSE blk.q_start + (blk.r_end - inter.end)

\* C2's case: an antiparallel chain, an interval that starts inside one aligned
\* block, off its left edge, and ends inside another one, both projected
C2_Witness ==
    /\ Finished
    /\ ~codirected
    /\ \E i \in 1..N : \E b1, b2 \in AlignedBlocks :
          /\ b1 # b2
          /\ Inside(intervals[i].start, b1) /\ intervals[i].start > b1.r_start
          /\ Inside(intervals[i].end, b2) /\ intervals[i].end > b2.r_start
          /\ StartImage(intervals[i]) # None
          /\ EndImage(intervals[i]) # None

\* the threshold rule for an endpoint inside the gap g; capped: the extrapolated
\* value saturates at 0 and is capped at the chain's forward-strand query end
GapRuleStart(inter, g, capped) ==
    LET off == g.r_end - inter.start IN
    IF codirected
    THEN IF RuleCrops(off, inter) THEN g.q_start
         ELSE IF capped THEN SatSub(g.q_end, off) ELSE g.q_end - off
    ELSE IF RuleCrops(off, inter) THEN g.q_end
         ELSE IF capped THEN Min(g.q_start + off, ForwardQueryEnd(chain)) ELSE g.q_start + off
GapRuleEnd(inter, g, capped) ==
    LET off == inter.end - g.r_start IN
    IF codirected
    THEN IF RuleCrops(off, inter) THEN g.q_end
         ELSE IF capped THEN Min(g.q_start + off, ForwardQueryEnd(chain)) ELSE g.q_start + off
    ELSE IF RuleCrops(off, inter) THEN g.q_start
         ELSE IF capped THEN SatSub(g.q_end, off) ELSE g.q_end - off
GapRule(capped) ==
    \A i \in 1..N : \A g \in GapBlocks :
        LET inter == intervals[i] IN
        /\ (Inside(inter.start, g) /\ StartImage(inter) # None)
              => StartImage(inter) = GapRuleStart(inter, g, capped)
        /\ (Inside(inter.end, g) /\ EndImage(inter) # None)
              => EndImage(inter) = GapRuleEnd(inter, g, capped)

CropOfStart(g) == IF codirected THEN g.q_start ELSE g.q_end
CropOfEnd(g) == IF codirected THEN g.q_end ELSE g.q_start
ExtrapolationOfStart(inter, g) ==
    IF codirected THEN SatSub(g.q_end, g.r_end - inter.start)
    ELSE Min(g.q_start + (g.r_end - inter.start), ForwardQueryEnd(chain))
ExtrapolationOfEnd(inter, g) ==
    IF codirected THEN Min(g.q_start + (inter.end - g.r_start), ForwardQueryEnd(chain))
    ELSE SatSub(g.q_end, inter.end - g.r_start)
\* both thresholds are at least as large as every gap of the chain
ThresholdsCoverGaps(inter) ==
    \A k \in 1..Len(chain.alignment) :
        abs_threshold >= chain.alignment[k].dt /\ RelOf(inter) >= chain.alignment[k].dt
\* with both thresholds large every endpoint inside a gap is extrapolated
LargeThresholdsExtrapolate ==
    \A i \in 1..N : \A g \in GapBlocks :
        LET inter == intervals[i] IN
        ThresholdsCoverGaps(inter) =>
            /\ (Inside(inter.start, g) /\ StartImage(inter) # None)
                  => StartImage(inter) = ExtrapolationOfStart(inter, g)
            /\ (Inside(inter.end, g) /\ EndImage(inter) # None)
                  => EndImage(inter) = ExtrapolationOfEnd(inter, g)
\* with both thresholds 0 the endpoints inside a gap are cropped; strict: only
\* the ones at a distance above 0 from the edge the offset is measured from
ZeroThresholdsCrop(strict) ==
    (abs_threshold = 0 /\ rel_threshold = 0) =>
        \A i \in 1..N : \A g \in GapBlocks :
            LET inter == intervals[i] IN
            /\ (Inside(inter.start, g) /\ StartImage(inter) # None)
                  => StartImage(inter) = CropOfStart(g)
            /\ (Inside(inter.end, g) /\ EndImage(inter) # None
                  /\ (strict => inter.end > g.r_start))
                  => EndImage(inter) = CropOfEnd(g)

EdgeRuleFirst(inter) ==
    LET off == chain.refs.start - inter.start
        first == AlignedBlock(chain, 1)
    IN  IF RuleCrops(off, inter)
        THEN IF codirected THEN first.q_start ELSE Min(first.q_end, ForwardQueryEnd(chain))
        ELSE IF codirected THEN SatSub(first.q_start, off)
             ELSE Min(first.q_end + off, ForwardQueryEnd(chain))
EdgeRuleLast(inter) ==
    LET off == inter.end - chain.refs.end
        last == AlignedBlock(chain, Len(chain.alignment))
    IN  IF RuleCrops(off, inter)
        THEN IF codirected THEN Min(last.q_end, ForwardQueryEnd(chain)) ELSE last.q_start
        ELSE IF codirected THEN Min(last.q_end + off, ForwardQueryEnd(chain))
             ELSE SatSub(last.q_start, off)
OverlapsChain(inter) == inter.start < chain.refs.end /\ inter.end > chain.refs.start

\* C5: an interval that overlaps the chain and starts before refs.start, or ends
\* after refs.end, gets that endpoint by the crop-or-extrapolate rule with off
\* measured from refs.start or refs.end: cropped to the first or last block's
\* query edge when off > abs_threshold and off > floor(length * rel_threshold),
\* otherwise moved off bases beyond it, saturating at 0 and capped at the chain's
\* forward-strand query end.
C5_ChainEdgeRule ==
    Finished =>
        \A i \in 1..N :
            LET inter == intervals[i] IN
            OverlapsChain(inter) =>
                /\ inter.start < chain.refs.start => StartImage(inter) = EdgeRuleFirst(inter)
                /\ inter.end > chain.refs.end => EndImage(inter) = EdgeRuleLast(inter)

\* C6: with ignore_undefined, every interval fully enclosed in one reference gap
\* (gap.r_start <= start and end <= gap.r_end) has neither a projected start nor
\* a projected end.
C6_EnclosedInGapUnset ==
    (Finished /\ ignore_undefined) =>
        \A i \in 1..N : \A g \in GapBlocks :
            (g.r_start <= intervals[i].start /\ intervals[i].end <= g.r_end)
                => /\ Projected(intervals[i].name).start = None
                   /\ Projected(intervals[i].name).end = None

\* C7: the returned map has exactly one entry for each input interval's name, also
\* for an interval outside the chain's reference span, and every entry has its name
\* set and chrom equal to the chain's query chromosome.
C7_OneEntryPerName ==
    Finished =>
        /\ DOMAIN output = Names
        /\ \A n \in DOMAIN output :
              output[n].name = n /\ output[n].chrom = chain.query.chr

\* C8: no projected start or end is greater than query.size, and no projected end
\* is greater than the chain's query end on the forward strand, in every state of
\* the call.
C8_ForwardStrandCap ==
    \A n \in DOMAIN output :
        /\ output[n].start <= chain.query.size
        /\ output[n].end <= chain.query.size
        /\ output[n].end <= ForwardQueryEnd(chain)

\* C8's case: a codirected chain and an interval that ends beyond refs.end within
\* the absolute threshold: the extrapolated end is capped at the query end
C8_Witness ==
    /\ Finished
    /\ codirected
    /\ \E i \in 1..N :
          /\ intervals[i].end > chain.refs.end
          /\ intervals[i].end - chain.refs.end <= abs_threshold
          /\ intervals[i].name \in DOMAIN output
          /\ output[intervals[i].name].end = ForwardQueryEnd(chain)

\* a batch that map_through_ must reject: empty, or with an interval that lacks a field
InvalidBatch ==
    \/ N = 0
    \/ \E i \in 1..N :
          \/ intervals[i].start = None \/ intervals[i].end = None
          \/ intervals[i].name = None \/ intervals[i].length = None

\* C9: map_through_ rejects an invalid batch (an empty list, or a list with an
\* interval without start, end, name or length) with an error value returned to
\* the caller, never by aborting.
C9_InvalidBatchReturnsError ==
    InvalidBatch => (result # "panic" /\ (pc = "done" => result = "err"))

\* the reference bases of an interval inside aligned blocks of the chain
AlignedBases(inter) ==
    SumTo([k \in 1..Len(chain.alignment) |->
             Max(Min(inter.end, AlignedBlock(chain, k).r_end)
                   - Max(inter.start, AlignedBlock(chain, k).r_start), 0)],
          Len(chain.alignment), 0)
\* the count returned for a name; a name without an entry counts no base
Coverage(n) == IF n \in DOMAIN output THEN output[n] ELSE 0

\* C10: alignment_cov_ returns for each input interval the number of reference
\* bases of [start, end) inside aligned blocks of the chain: the sum over all
\* aligned blocks of the length of the half-open intersection.
C10_CoverageIsAlignedBases ==
    Finished =>
        \A i \in 1..N : Coverage(intervals[i].name) = AlignedBases(intervals[i])

\* C11: Reader::parse never drops a malformed chain silently: on a file in which
\* a chain has a malformed header or body the call fails and returns no ChainMap.
C11_MalformedChainFailsParse ==
    (call = "parse" /\ pc = "done" /\ file \in MalformedFiles) => result # "ok"

\* the ids of a sequence of chains
IdsOf(cs) == { cs[i].id : i \in 1..Len(cs) }

\* C12: for a well-formed chain file F with unique ids, Reader::parse(F) holds
\* exactly one Chain per chain of F, keyed by its id, and Chain::to_string of each
\* parsed chain is that chain's text block of F (header line, alignment lines,
\* blank line), so the rendered blocks are the blocks of F.
C12_ParseRendersTheFile ==
    (call = "parse" /\ pc = "done") =>
        \A cs \in FileChains :
            file = FileOf(cs) =>
                /\ result = "ok"
                /\ DOMAIN chainmap = IdsOf(cs)
                /\ \A i \in 1..Len(cs) :
                      /\ chainmap[cs[i].id].id = cs[i].id
                      /\ ChainToString(chainmap[cs[i].id]) = ChainText(cs[i])

\* C12's case: a file of two chains, one of them with several alignment lines,
\* parsed into two chains
C12_Witness ==
    /\ call = "parse" /\ pc = "done" /\ result = "ok"
    /\ file \in WellFormedFiles
    /\ Cardinality(DOMAIN chainmap) = 2
    /\ \E id \in DOMAIN chainmap : Len(chainmap[id].alignment) = 2

\* the byte offset at which the text block of the i-th chain of a file starts
BlockOffset(cs, i) == Len(FileOf(SubSeq(cs, 1, i - 1)))
\* the index of a file of chains: one line per chain, from the 'c' of its keyword
\* to the next chain's keyword or the end of the file
IndexLinesOfChains ==
    \A cs \in FileChains :
        file = FileOf(cs) =>
            /\ Len(out_handle) = Len(cs)
            /\ \A i \in 1..Len(cs) :
                  /\ file[BlockOffset(cs, i) + 1] = "c"
                  /\ out_handle[i] = <<cs[i].id, BlockOffset(cs, i), BlockOffset(cs, i + 1)>>
\* the index of a file without a chain has no line
NoLineWithoutChain == file \in NoChainFiles => out_handle = << >>

\* C13: BinaryIndex::index writes exactly one line per chain of the file (none for
\* a file that contains no chain), holding the chain's id, the offset of the 'c'
\* of its keyword and the offset of the next chain's keyword, or the file length
\* for the last chain.
C13_OneIndexLinePerChain ==
    pc = "indexed" => (IndexLinesOfChains /\ NoLineWithoutChain)

\* the requested ids
RequestedIds == { chains[i] : i \in 1..Len(chains) }

\* C14: on a well-formed chain file, building the index and extracting ids of the
\* file with Reader::extract_ix yields, for each id, a Chain equal to the one
\* Reader::parse returns for that id from the whole file.
C14_IndexedExtractEqualsParse ==
    (call = "extract_ix" /\ file \in WellFormedFiles) =>
        LET whole == ReaderParse(file).val IN
        /\ \A id \in DOMAIN chainmap : id \in DOMAIN whole /\ chainmap[id] = whole[id]
        /\ (pc = "done" /\ RequestedIds \subseteq DOMAIN whole)
              => (result = "ok" /\ DOMAIN chainmap = RequestedIds)

\* C14's case: the second chain of a file of two is extracted through the index
C14_Witness ==
    /\ call = "extract_ix" /\ pc = "done" /\ result = "ok"
    /\ file \in WellFormedFiles
    /\ Len(out_handle) = 2
    /\ chains = <<out_handle[2][1]>>
    /\ DOMAIN chainmap = {out_handle[2][1]}
    /\ out_handle[2][2] > 0

\* the ids that have a line in the index file
IndexedIds == { out_handle[i][1] : i \in 1..Len(out_handle) }

\* C15: Reader::extract_ix called with an id that is absent from the index returns
\* the MissingChain error as a value to the caller; it does not abort the process.
C15_MissingChainIsReturned ==
    (call = "extract_ix" /\ pc = "done" /\ file \in WellFormedFiles
       /\ ~(RequestedIds \subseteq IndexedIds))
        => result = "err"

\* C16: for a well-formed chain file F with unique ids and a non-empty list of ids
\* (repeated or absent ids included), Reader::extract(F, ids) returns exactly the
\* chains of Reader::parse(F) whose header id is in ids, also when the scan exits
\* early.
C16_ExtractEqualsParseOnIds ==
    (call = "extract" /\ pc = "done" /\ file \in WellFormedFiles /\ Len(chains) > 0) =>
        LET whole == ReaderParse(file).val IN
        /\ result = "ok"
        /\ DOMAIN chainmap = DOMAIN whole \cap RequestedIds
        /\ \A id \in DOMAIN chainmap : chainmap[id] = whole[id]

\* C16's case: the first chain of a file of two is the only one asked for, and
\* the scan exits before it reads the second header
C16_Witness ==
    /\ call = "extract" /\ pc = "done" /\ result = "ok"
    /\ \E cs \in FileChains :
          /\ Len(cs) = 2
          /\ file = FileOf(cs)
          /\ chains = <<cs[1].id>>
          /\ DOMAIN chainmap = {cs[1].id}
          /\ data = file

\* C17: Chain::head returns the MalformedHeader error, and neither a parsed header
\* nor an abort, for a header line whose field count is not 13, whose first token
\* is not chain, whose strand is not + or -, or in which a numeric field does not
\* parse.
C17_MalformedHeaderIsAnError ==
    (call = "head" /\ pc = "done" /\ arg[1] \in MalformedHeaders) => result = "err"

\* C18: Chain::head applied to a valid header line followed by one newline byte
\* returns the same (score, refs, query, id) as applied to the line without it.
C18_TrailingNewlineAllowed ==
    (call = "head" /\ pc = "done") =>
        \A hd \in ValidHeaders : arg[1] = hd \o <<NL>> => ret = ChainHeadOf(hd)

\* C19: Chain::from on a body with a non-digit in a numeric field, a missing tab
\* or newline in a line of three fields, or a field that overflows 32 bits ends
\* with the MalformedRecord error returned as a value; it never aborts and never
\* returns a shortened record list.
C19_MalformedRecordIsAnError ==
    (call = "from" /\ pc = "done" /\ arg[2] \in MalformedBodies) => result = "err"

\* a chain is self-consistent
SelfConsistent(c) ==
    /\ Len(c.alignment) >= 1
    /\ c.alignment[Len(c.alignment)].is_last
    /\ RefSpan(c.alignment) = c.refs.end - c.refs.start
    /\ QuerySpan(c.alignment) = c.query.end - c.query.start

\* C20: every Chain that Chain::from returns is self-consistent: at least one
\* record, the last record terminal, the sizes and dt summing to refs.end -
\* refs.start and the sizes and dq to query.end - query.start.
C20_ParsedChainSelfConsistent ==
    (call = "from" /\ pc = "done" /\ result = "ok") => SelfConsistent(ret.val)

(* ------------------------------ block materialisation ----------------- *)
BlockCalls == {"to_blocks", "yield_blocks"}
\* a block is a gap block when its id is i_j; the record a block belongs to is the
\* first number of its id
IsGapBlock(blk) == Memchr("_", blk.id) # None
RecordOf(blk) ==
    IF IsGapBlock(blk) THEN ParseU32(Slice(blk.id, 0, Memchr("_", blk.id)))
    ELSE ParseU32(blk.id)

\* the block has the widths of its record and starts at the cursor of its record
WidthsOfRecord(blk) ==
    LET k == RecordOf(blk)
        rec == chain.alignment[k]
    IN  /\ k \in 1..Len(chain.alignment)
        /\ IF IsGapBlock(blk)
           THEN /\ blk.r_end - blk.r_start = rec.dt
                /\ blk.q_end - blk.q_start = rec.dq
                /\ blk.r_start = BlockRStart(chain, k) + rec.size
           ELSE /\ blk.r_end - blk.r_start = rec.size
                /\ blk.q_end - blk.q_start = rec.size
                /\ blk.r_start = BlockRStart(chain, k)

\* C21: every block of to_blocks(Both, report_gaps) has the widths of its record
\* on both sides (aligned: size and size; gap: dt and dq); the first block starts
\* at refs.start, every block starts at the reference cursor its record leaves
\* it, and the blocks are in ascending reference order without overlap.
C21_BlocksHaveRecordWidths ==
    call = "to_blocks" =>
        /\ \A i \in 1..Len(blocks) : WidthsOfRecord(blocks[i])
        /\ blocks # << >> => blocks[1].r_start = chain.refs.start
        /\ \A i \in 1..Len(blocks) : blocks[i].r_start <= blocks[i].r_end
        /\ \A i \in 1..(Len(blocks) - 1) : blocks[i].r_end <= blocks[i + 1].r_start

C21_Witness ==
    /\ call = "to_blocks" /\ pc = "done" /\ report_gaps
    /\ ~q_strand
    /\ \E i \in 1..Len(blocks) :
          /\ IsGapBlock(blocks[i])
          /\ blocks[i].r_end - blocks[i].r_start = 2
          /\ blocks[i].q_end - blocks[i].q_start = 1

\* the ids the blocks of a chain are to carry with gap reporting on
ExpectedIds(al) ==
    Concat([i \in 1..Len(al) |->
              IF al[i].dt # 0 \/ al[i].dq # 0
              THEN <<BlockName(i), GapName(i)>>
              ELSE <<BlockName(i)>>])

\* C22: with gap reporting on, to_blocks and yield_blocks emit for each record one
\* aligned block with the 1-based ordinal i as id, followed by exactly one gap
\* block with id i_(i+1) whenever the record's dt or dq is non-zero, and by no gap
\* block only when both are zero.
C22_OneGapPerGappedRecord ==
    (call \in BlockCalls /\ pc = "done" /\ report_gaps) =>
        [i \in 1..Len(blocks) |-> blocks[i].id] = ExpectedIds(chain.alignment)

\* the aligned blocks among the blocks pushed so far
AlignedPushed == { i \in 1..Len(blocks) : ~IsGapBlock(blocks[i]) }

\* C23: for a chain with query.strand = '-', to_blocks computes the query
\* coordinates on the forward strand from a cursor that starts at query.size -
\* query.start and only decreases: the aligned block of a record of length s is
\* [q_cursor - s, q_cursor), the cursor then moves to q_cursor - s - dq; for a
\* self-consistent chain the cursor never goes below query.size - query.end and
\* the last aligned block starts exactly there.
C23_ReverseStrandCursor ==
    (call = "to_blocks" /\ ~q_strand /\ pc \in {"blocks_loop", "done"}) =>
        /\ q_start = BlockQCursor(chain, h + 1)
        /\ q_start >= chain.query.size - chain.query.end
        /\ \A i \in AlignedPushed :
              LET k == RecordOf(blocks[i]) IN
              /\ blocks[i].q_end = BlockQCursor(chain, k)
              /\ blocks[i].q_start = BlockQCursor(chain, k) - chain.alignment[k].size
        /\ pc = "done" =>
              blocks[Len(blocks)].q_start = chain.query.size - chain.query.end

C23_Witness ==
    /\ call = "to_blocks" /\ ~q_strand /\ pc = "done"
    /\ Len(chain.alignment) = 2 /\ chain.alignment[1].dq = 2
    /\ chain.query.start = 1

(* ------------------------------ rendering ----------------------------- *)
\* C24: rendering and re-parsing is the identity on chains: for every Chain c that
\* Chain::from returns, Chain::from(c.header(), c.alignment()) returns a chain
\* with the same score, heads, id and the same records (size, dt, dq, is_last).
C24_RenderedChainParsesBack ==
    (call = "from_rendered" /\ pc = "done" /\ ChainFrom(arg[1], arg[2]).kind = "ok") =>
        ret = ChainFrom(arg[1], arg[2])

(* ------------------------------ ChainMap ------------------------------ *)
\* the test of each filter, as the specification states it
Satisfies(k, c) ==
    \/ arg[1] = "filter_by_score" /\ c.score >= arg[2]
    \/ arg[1] = "filter_ref_by_size" /\ c.refs.size >= arg[2]
    \/ arg[1] = "filter_query_by_size" /\ c.query.size >= arg[2]
    \/ arg[1] = "filter_id" /\ k \in { arg[2][i] : i \in 1..Len(arg[2]) }
    \/ arg[1] = "filter" /\ Holds(arg[2], c)
FilterDone == pc = "done" /\ call \in { f[1] : f \in FilterCalls }

\* C25: each ChainMap filter returns a new map holding exactly the entries of the
\* input that satisfy its test, with key and chain unchanged, and leaves the input
\* map unchanged, whatever the split of the entries among the parallel workers.
C25_FiltersKeepExactlyTheMatches ==
    /\ [](FilterDone =>
            /\ DOMAIN ret = { k \in DOMAIN chainmap : Satisfies(k, chainmap[k]) }
            /\ \A k \in DOMAIN ret : ret[k] = chainmap[k])
    /\ [][chainmap' = chainmap]_vars

\* two workers with an entry each, one of which passes the filter
C25_Witness ==
    /\ FilterDone /\ call = "filter_by_score"
    /\ Cardinality(DOMAIN chainmap) = 3
    /\ Cardinality(DOMAIN ret) = 2
    /\ partials[1] # << >> /\ partials[2] # << >>

(* ------------------------------ span intersection --------------------- *)
\* the chain's span on the side asked for, query side on the forward strand
SpanOf(c, ref) ==
    IF ref THEN <<c.refs.start, c.refs.end>>
    ELSE IF c.query.strand = "+" THEN <<c.query.start, c.query.end>>
    ELSE <<c.query.size - c.query.end, c.query.size - c.query.start>>
OverlapsSpan(i) ==
    /\ i.start # None /\ i.end # None
    /\ i.start < SpanOf(chain, arg[1])[2]
    /\ i.end > SpanOf(chain, arg[1])[1]

\* C26: Chain::intersect_to_vector(intervals, to_ref) returns, in input order,
\* exactly the input intervals with defined start and end whose half-open range
\* overlaps the chain's span on the side asked for, whatever the order of the
\* input list.
C26_IntersectReturnsOverlapping ==
    (call = "intersect_to_vector" /\ pc = "done") =>
        output = SelectSeq(intervals, OverlapsSpan)

(* ------------------------------ the sweep's exit ---------------------- *)
\* the block loop is at its head and leaves through the test r_start > max_end
LeavesPastMaxEnd ==
    /\ pc \in {"map_outer", "cov_outer"}
    /\ h < Len(chain.alignment)
    /\ r_start > max_end

\* C27: map_through_ and alignment_cov_ leave the block loop through the test
\* r_start > max_end only when all intervals have been passed: at that moment
\* every interval of the batch, an interval that encloses later-starting ones
\* included, has end < r_start of the current block.
C27_ExitOnlyPastAllIntervals ==
    LeavesPastMaxEnd => \A i \in 1..N : intervals[i].end < r_start

(* ------------------------------ parallel parsing ---------------------- *)
\* the ids of the header lines of a file, as text
HeaderIds(d) ==
    LET split == SplitChains(d, << >>) IN
    IF split.kind # "ok" THEN << >>
    ELSE [i \in 1..Len(split.val) |->
            SliceFrom(split.val[i][1], Memrchr(SP, split.val[i][1]) + 1)]
UniqueIds(d) ==
    \A i, j \in 1..Len(HeaderIds(d)) : i # j => HeaderIds(d)[i] # HeaderIds(d)[j]

\* C28: for every input whose chain ids are unique, the ChainMap returned by
\* Reader::parse is the same for every assignment of (header, body) pairs to the
\* parallel workers and every order in which their partial maps are merged.
C28_ParseIsOrderIndependent ==
    (call = "parse" /\ pc = "done" /\ result = "ok" /\ partials # << >>
       /\ UniqueIds(file)) =>
        chainmap = CollectChains(SplitChains(file, << >>).val, << >>)

\* each worker has parsed a chain
C28_Witness ==
    /\ call = "parse" /\ pc = "done" /\ result = "ok" /\ UniqueIds(file)
    /\ partials # << >> /\ partials[1] # << >> /\ partials[2] # << >>
    /\ Cardinality(DOMAIN chainmap) = 2

(* ------------------------------ orientation of the results ------------ *)
\* C29: every projected interval returned by map_through_ that has both endpoints
\* defined satisfies start <= end, for every self-consistent chain on either
\* strand, every batch and every pair of thresholds, intervals whose two
\* endpoints fall inside the same gap and are both extrapolated included.
C29_ProjectedStartBeforeEnd ==
    (pc = "done" /\ result = "ok" /\ call = "none") =>
        \A n \in DOMAIN output :
            (output[n].start # None /\ output[n].end # None) =>
                output[n].start <= output[n].end

(* ------------------------------ the cursors of the sweep -------------- *)
\* C30: on every path through the block loops of map_through_ and alignment_cov_
\* the cursors at the start of record k equal those of block materialisation:
\* r_start = refs.start + the sum of size + dt of the records before k, the query
\* cursor its start value plus (strand '+') or minus (strand '-') the sum of size
\* + dq; the sums are taken without 32-bit wraparound and no subtraction wraps
\* below zero for a self-consistent chain.
C30_CursorsFollowTheRecords ==
    /\ ~(result = "panic" /\ b.size + Max(b.dt, b.dq) > U32Max)
    /\ pc = "map_outer" =>
          /\ r_start = BlockRStart(chain, h + 1)
          /\ q_start = BlockQCursor(chain, h + 1)
          /\ q_start >= 0
    /\ pc = "cov_outer" => r_start = BlockRStart(chain, h + 1)

====
